---- MODULE Spec2Model ----
(***************************************************************************)
(* A model of the portfolio chip game (src/portfolio/game.py): the draft,  *)
(* the per-game turn engine with its two chained effects, scoring, board   *)
(* cleanup and the match orchestration of Match.run_match.                 *)
(***************************************************************************)
EXTENDS Integers, Sequences, FiniteSets, TLC

(***************************************************************************)
(* Program constants                                                       *)
(***************************************************************************)
\* CHIP_KIND_COUNT = dict(mover=9, stacker=9, drawer=9, binder=9)
CHIP_KIND_COUNT == 9

\* the kinds, in the order of the CHIP_KIND_COUNT dict
Kinds == <<"mover", "stacker", "drawer", "binder">>

\* Holdings.put: assert len(chips) == 3 ; draw_holdings draws 3
HOLDINGS_SIZE == 3

\* run_match: p.draw_hand(7)
FIRST_HAND == 7

\* run_match: count = min(3, len(p.deck))
NEXT_HAND == 3

\* draft: for draft_round in range(6)
DRAFT_ROUNDS == 6

\* draft: draft_batch_6 = all_chips[:6]
DRAFT_BATCH == 6

\* draft_3_from_6: assert len(keep) == 3 / len(give) == 3
DRAFT_SHARE == 3

\* Board: self.stacks = [[] for _ in range(4)]
BOARD_SIZE == 4

(***************************************************************************)
(* Bounds of the model (not program constants)                             *)
(***************************************************************************)
\* how many seeds of the random generator are explored: the seed decides
\* the outcome of every random.shuffle of a run
NumSeeds == 2

\* how many moves other than Check the strategies make in one match run
MaxPlays == 1

\* the same for the runs with the cautious strategies (SpecTurns)
MaxCautiousPlays == 3

\* how many chips lie on the boards that are scored and cleaned (SpecBoard)
MaxBoardChips == 3

\* the highest score of a game in the lists of game results (SpecWinner)
MaxScore == 2

\* how many ways of splitting a batch the drafting strategies have (SpecDraft)
NumSplits == 3

\* how many chips lie on the boards on which a move is made (SpecMove)
MaxMoveChips == 1

\* how many chips the decks hold that are not empty (SpecMove)
MaxDeckLeft == 2

\* the largest hand a player starts a game with in the games of SpecGame
MaxHand == 1

\* the largest deck a player starts such a game with
MaxGameDeck == 1

\* how many of the tile kinds lie in the castles of SpecCastle
MaxTileKinds == 3

(***************************************************************************)
(* Chips.  A chip is an object with an identity; chips 1..9 are movers,    *)
(* 10..18 stackers, 19..27 drawers, 28..36 binders (the order in which     *)
(* Match.draft creates them).                                              *)
(***************************************************************************)
NumChips == Len(Kinds) * CHIP_KIND_COUNT

Chips == 1..NumChips

KindOf(c) == Kinds[((c - 1) \div CHIP_KIND_COUNT) + 1]

\* all_chips = [Chip(kind) for kind in CHIP_KIND_COUNT for _ in range(...)]
AllChips == [i \in 1..NumChips |-> i]

Players == {0, 1}

Other(p) == 1 - p

\* player names: Match.__init__ creates PlayerRandom("Alice"), PlayerRandom("Bob")
PlayerName(p) == IF p = 0 THEN "Alice" ELSE "Bob"

\* Python's None (Game.winner, the result of _check_match_winner)
None == "None"

Positions == 0..(BOARD_SIZE - 1)

(***************************************************************************)
(* Sequence helpers (Python list operations)                               *)
(***************************************************************************)
Range(s) == {s[i] : i \in 1..Len(s)}

\* chips[:count]
Take(s, n) == SubSeq(s, 1, n)

\* chips[count:]
Drop(s, n) == SubSeq(s, n + 1, Len(s))

\* list.remove(x): removes the first element equal to x
RemoveFirst(s, x) ==
    LET i == CHOOSE j \in 1..Len(s) : s[j] = x /\ \A k \in 1..(j - 1) : s[k] # x
    IN  SubSeq(s, 1, i - 1) \o SubSeq(s, i + 1, Len(s))

Min(a, b) == IF a <= b THEN a ELSE b

(***************************************************************************)
(* random.shuffle: a permutation of the list that the state of the random  *)
(* generator decides.  In the model the generator's state is a number r in *)
(* 0..NumSeeds-1; a shuffle riffles the list r + 1 times (riffle: the two  *)
(* halves interleaved) and steps the generator.                            *)
(***************************************************************************)
Riffle(s) ==
    LET n == Len(s)
        h == (n + 1) \div 2
    IN  [i \in 1..n |-> IF i % 2 = 1 THEN s[(i + 1) \div 2] ELSE s[h + (i \div 2)]]

RECURSIVE RiffleTimes(_, _)
RiffleTimes(s, k) == IF k = 0 THEN s ELSE RiffleTimes(Riffle(s), k - 1)

\* random.shuffle(s) with the generator in state r
Shuffle(s, r) == RiffleTimes(s, r + 1)

\* the generator's state after a shuffle
NextRng(r) == (r + 1) % NumSeeds

(***************************************************************************)
(* State                                                                   *)
(***************************************************************************)
VARIABLES
    pc,            \* where Match.run_match stands
    stage,         \* Match.stage
    all_chips,     \* the draft pool (local all_chips of Match.draft)
    draft_round,   \* the loop variable of Match.draft
    deck,          \* deck[p]: Player.deck.chips
    hand,          \* hand[p]: Player.hand.chips
    holdings,      \* holdings[p]: Player.holdings.chips
    stacks,        \* Board.stacks
    is_hidden,     \* is_hidden[c]: Chip.is_hidden
    discarded,     \* chips no container refers to any more (Discard, cleanup)
    games,         \* Match.games, a list of Game objects
    match_winner,  \* local match_winner of run_match
    rng,           \* the state of the random generator behind random.shuffle
    budget,        \* how many moves other than Check the strategies still make
    cells,         \* Castle.cells (src/inheritance): cells[c] is CastleCell.stack
    result         \* what Castle.count_tile_contacts returned

vars == <<pc, stage, all_chips, draft_round, deck, hand, holdings, stacks,
          is_hidden, discarded, games, match_winner, rng, budget,
          cells, result>>

(***************************************************************************)
(* The castle of src/inheritance/game.py: 7 cells in lines of 2, 3 and 2,  *)
(* a cell is named by its coordinates <<x, y>>; a tile is its kind.        *)
(***************************************************************************)
\* TILE_KIND_COUNT: the kinds, in the order of the dict
TILE_KINDS == <<"troop", "agent", "builder", "scholar">>

\* Castle.__init__: self.cells, in the order count_tile_contacts visits them
CastleCells ==
    <<<<0, 0>>, <<0, 1>>, <<1, 0>>, <<1, 1>>, <<1, 2>>, <<2, 0>>, <<2, 1>>>>

\* a Castle.__init__ with "c(2, 1).neighbours = [c(2, 0), c(1, 1)]"
neighboursOneWay(c) ==
    CASE c = <<0, 0>> -> <<<<0, 1>>, <<1, 0>>, <<1, 1>>>>
      [] c = <<0, 1>> -> <<<<0, 0>>, <<1, 1>>, <<1, 2>>>>
      [] c = <<1, 0>> -> <<<<0, 0>>, <<1, 1>>, <<2, 0>>>>
      [] c = <<1, 1>> -> <<<<0, 0>>, <<0, 1>>, <<1, 0>>, <<1, 2>>, <<2, 0>>, <<2, 1>>>>
      [] c = <<1, 2>> -> <<<<0, 1>>, <<1, 1>>, <<2, 1>>>>
      [] c = <<2, 0>> -> <<<<1, 0>>, <<1, 1>>, <<2, 1>>>>
      [] c = <<2, 1>> -> <<<<2, 0>>, <<1, 1>>>>

\* Castle.__init__: CastleCell.neighbours of the cell c
neighbours(c) ==
    CASE c = <<0, 0>> -> <<<<0, 1>>, <<1, 0>>, <<1, 1>>>>
      [] c = <<0, 1>> -> <<<<0, 0>>, <<1, 1>>, <<1, 2>>>>
      [] c = <<1, 0>> -> <<<<0, 0>>, <<1, 1>>, <<2, 0>>>>
      [] c = <<1, 1>> -> <<<<0, 0>>, <<0, 1>>, <<1, 0>>, <<1, 2>>, <<2, 0>>, <<2, 1>>>>
      [] c = <<1, 2>> -> <<<<0, 1>>, <<1, 1>>, <<2, 1>>>>
      [] c = <<2, 0>> -> <<<<1, 0>>, <<1, 1>>, <<2, 1>>>>
      [] c = <<2, 1>> -> <<<<2, 0>>, <<1, 1>>, <<1, 2>>>>

\* Castle.__init__ leaves every cell empty; nothing was counted
NoCastle ==
    /\ cells = [c \in Range(CastleCells) |-> <<>>]
    /\ result = <<>>

\* Match.__init__ / Player.__init__ / Board.__init__
Constructed ==
    /\ pc = "draft"
    /\ stage = "DRAFT"
    /\ all_chips = <<>>
    /\ draft_round = 0
    /\ deck = [p \in Players |-> <<>>]
    /\ hand = [p \in Players |-> <<>>]
    /\ holdings = [p \in Players |-> <<>>]
    /\ stacks = [i \in Positions |-> <<>>]
    /\ is_hidden = [c \in Chips |-> FALSE]
    /\ discarded = {}
    /\ games = <<>>
    /\ match_winner = None

Init ==
    /\ Constructed
    /\ rng \in 0..(NumSeeds - 1)
    /\ budget = MaxPlays
    /\ NoCastle

(***************************************************************************)
(* Draft                                                                   *)
(***************************************************************************)
\* Match.draft, up to the loop: the pool is created and shuffled
DraftBegin ==
    /\ pc = "draft"
    /\ stage = "DRAFT"
    /\ all_chips' = Shuffle(AllChips, rng)
    /\ rng' = NextRng(rng)
    /\ draft_round' = 0
    /\ pc' = "draft_round"
    /\ UNCHANGED <<stage, deck, hand, holdings, stacks, is_hidden, discarded,
                   games, match_winner, budget,
                   cells, result>>

\* PlayerRandom._draft_choose_3: random.shuffle(batch); batch[:3], batch[3:]
\* (the pair is <<keep, give>>)
DraftChoose3(draft_batch_6) ==
    LET b == Shuffle(draft_batch_6, rng)
    IN  <<Take(b, DRAFT_SHARE), Drop(b, DRAFT_SHARE)>>

\* who chooses in round r (0-based): player_0, player_1 are swapped every round
Chooser(r) == r % 2

\* Player.draft_3_from_6: do its assertions hold for this split?
DraftSplitAccepted(chooser, draft_batch_6, keep, give) ==
    /\ Len(draft_batch_6) = DRAFT_BATCH
    /\ Len(deck[chooser]) + DRAFT_SHARE <= 18
    /\ Len(keep) = DRAFT_SHARE
    /\ Len(give) = DRAFT_SHARE

\* a draft_3_from_6 that puts keep into both decks
DraftDecksKeepTwice(chooser, keep, give) ==
    [p \in Players |-> deck[p] \o keep]

\* Player.draft_3_from_6 after the assertions: self.deck.put(give);
\* other_players[0]._draft_accept_3(keep)
DraftDecks(chooser, keep, give) ==
    [p \in Players |-> IF p = chooser THEN deck[p] \o give ELSE deck[p] \o keep]

\* one round of the loop of Match.draft; after the last round the stage is set
DraftRoundWith(split) ==
    LET draft_batch_6 == Take(all_chips, DRAFT_BATCH)
        chooser == Chooser(draft_round)
    IN  /\ all_chips' = Drop(all_chips, DRAFT_BATCH)
        /\ IF DraftSplitAccepted(chooser, draft_batch_6, split[1], split[2])
           THEN /\ deck' = DraftDecks(chooser, split[1], split[2])
                /\ draft_round' = draft_round + 1
                /\ IF draft_round + 1 = DRAFT_ROUNDS
                   THEN stage' = "GAME1" /\ pc' = "initial_draw"
                   ELSE stage' = stage /\ pc' = pc
           ELSE /\ pc' = "failed_draft"
                /\ UNCHANGED <<deck, draft_round, stage>>
        /\ UNCHANGED <<hand, holdings, stacks, is_hidden, discarded, games,
                       match_winner, budget,
                       cells, result>>

\* a round of the draft with the PlayerRandom strategy
DraftRound ==
    /\ pc = "draft_round"
    /\ draft_round < DRAFT_ROUNDS
    /\ DraftRoundWith(DraftChoose3(Take(all_chips, DRAFT_BATCH)))
    /\ rng' = NextRng(rng)

(***************************************************************************)
(* Draws                                                                   *)
(***************************************************************************)
\* Deck.draw: assert count <= len(self.chips)
DrawAllowed(d, count) == count <= Len(d)

\* Deck.draw: the chips drawn and the deck left
DrawResult(d, count) == Take(d, count)

\* a Deck.draw that forgets "self.chips = self.chips[count:]"
DrawRestKeepsDeck(d, count) == d

DrawRest(d, count) == Drop(d, count)

\* run_match, "Initial draw for Game 1": for each player draw_holdings()
\* (shuffle, holdings.put(deck.draw(3))) and draw_hand(7)
InitialDraw ==
    /\ pc = "initial_draw"
    /\ LET r(p) == IF p = 0 THEN rng ELSE NextRng(rng)
           d(p) == Shuffle(deck[p], r(p))
       IN  IF \A p \in Players :
                /\ DrawAllowed(d(p), HOLDINGS_SIZE)
                /\ DrawAllowed(DrawRest(d(p), HOLDINGS_SIZE), FIRST_HAND)
           THEN /\ holdings' = [p \in Players |-> DrawResult(d(p), HOLDINGS_SIZE)]
                /\ hand' = [p \in Players |->
                              hand[p] \o DrawResult(DrawRest(d(p), HOLDINGS_SIZE), FIRST_HAND)]
                /\ deck' = [p \in Players |->
                              DrawRest(DrawRest(d(p), HOLDINGS_SIZE), FIRST_HAND)]
                /\ pc' = "new_game"
           ELSE /\ pc' = "failed_draw"
                /\ UNCHANGED <<holdings, hand, deck>>
    /\ rng' = NextRng(NextRng(rng))
    /\ UNCHANGED <<stage, all_chips, draft_round, stacks, is_hidden, discarded,
                   games, match_winner, budget,
                   cells, result>>

(***************************************************************************)
(* The board                                                               *)
(***************************************************************************)
\* neighbors_map = {0: [1, 2], 1: [0, 3], 2: [0, 3], 3: [1, 2]}
\* (neighbors_map.get(src, []) for a key that is not a position)
Neighbors(i) ==
    CASE i = 0 -> <<1, 2>>
      [] i = 1 -> <<0, 3>>
      [] i = 2 -> <<0, 3>>
      [] i = 3 -> <<1, 2>>
      [] OTHER -> <<>>

\* Python list indexing stacks[pos]: -4..-1 count from the end, anything
\* else outside 0..3 raises IndexError
IndexOk(pos) == pos \in (0 - BOARD_SIZE)..(BOARD_SIZE - 1)

PyIndex(pos) == IF pos < 0 THEN pos + BOARD_SIZE ELSE pos

Top(stack) == stack[Len(stack)]

Pop(stack) == SubSeq(stack, 1, Len(stack) - 1)

(***************************************************************************)
(* Game objects and moves                                                  *)
(***************************************************************************)
\* Move.__init__ (chip = None is chip 0, which is no chip)
NoChip == 0

Move(move_type, chip, target_pos) ==
    [move_type |-> move_type, chip |-> chip, target_pos |-> target_pos]

\* nothing was asked yet
NoRequest ==
    [player |-> -1, move |-> Move("NONE", NoChip, -1), mf |-> <<-1, -1>>,
     df |-> <<NoChip, -1>>]

\* a Game.__init__ with "self.active_player_idx = 1"
NewGameBobFirst ==
    [active_player_idx |-> 1,
     players_checked |-> [p \in Players |-> FALSE],
     finished |-> FALSE,
     scores |-> [n \in {} |-> 0],
     winner |-> None,
     log |-> <<>>,
     asked |-> NoRequest]

\* Game.__init__ (log: what the strategies were asked for in this game, in
\* order, as pairs <<player, answer>>: the type of the move a get_move
\* returned, or "MOVER_FOLLOWUP" / "DRAWER_FOLLOWUP" for a follow-up; asked:
\* the last turn's player, move and answers to the follow-ups; they are
\* not fields of the code's Game)
NewGame ==
    [active_player_idx |-> 0,
     players_checked |-> [p \in Players |-> FALSE],
     finished |-> FALSE,
     scores |-> [n \in {} |-> 0],
     winner |-> None,
     log |-> <<>>,
     asked |-> NoRequest]

\* the game that is running: the last one appended to Match.games
Game == games[Len(games)]

\* the part of the program's state execute_move reads and writes;
\* failed: an assertion or an index failed and the run is aborted
World ==
    [hand |-> hand, deck |-> deck, stacks |-> stacks, is_hidden |-> is_hidden,
     discarded |-> discarded, players_checked |-> Game.players_checked,
     failed |-> FALSE]

Fail(w) == [w EXCEPT !.failed = TRUE]

\* a play with "self.board.stacks[move.target_pos].insert(0, move.chip)"
PlayChipBottom(w, p, chip, target_pos, hide) ==
    IF chip \notin Range(w.hand[p])
    THEN Fail(w)
    ELSE LET w1 == [w EXCEPT !.hand[p] = RemoveFirst(@, chip),
                             !.is_hidden[chip] = hide]
         IN  IF IndexOk(target_pos)
             THEN [w1 EXCEPT !.stacks[PyIndex(target_pos)] = <<chip>> \o @]
             ELSE Fail(w1)

\* a play without "self.board.stacks[move.target_pos].append(move.chip)"
PlayChipNowhere(w, p, chip, target_pos, hide) ==
    IF chip \notin Range(w.hand[p])
    THEN Fail(w)
    ELSE LET w1 == [w EXCEPT !.hand[p] = RemoveFirst(@, chip),
                             !.is_hidden[chip] = hide]
         IN  IF IndexOk(target_pos) THEN w1 ELSE Fail(w1)

\* execute_move, PLAY_FACE_DOWN / PLAY_FACE_UP up to the append:
\*   assert move.chip in player.hand.chips
\*   player.hand.chips.remove(move.chip)
\*   move.chip.is_hidden = <hide>
\*   self.board.stacks[move.target_pos].append(move.chip)
PlayChip(w, p, chip, target_pos, hide) ==
    IF chip \notin Range(w.hand[p])
    THEN Fail(w)
    ELSE LET w1 == [w EXCEPT !.hand[p] = RemoveFirst(@, chip),
                             !.is_hidden[chip] = hide]
         IN  IF IndexOk(target_pos)
             THEN [w1 EXCEPT !.stacks[PyIndex(target_pos)] = Append(@, chip)]
             ELSE Fail(w1)

\* a mover effect without "assert dst in neighbors_map.get(src, [])"
MoverEffectAnywhere(w, src, dst) ==
    IF ~(0 <= src /\ src < 4 /\ 0 <= dst /\ dst < 4 /\ w.stacks[src] # <<>>)
    THEN Fail(w)
    ELSE LET moved_chip == Top(w.stacks[src])
             popped == [w.stacks EXCEPT ![src] = Pop(@)]
         IN  [w EXCEPT !.stacks = [popped EXCEPT ![dst] = Append(@, moved_chip)]]

\* a mover effect with "self.board.stacks[src].pop(0)"
MoverEffectBottom(w, src, dst) ==
    IF ~(0 <= src /\ src < 4 /\ 0 <= dst /\ dst < 4 /\ w.stacks[src] # <<>>)
    THEN Fail(w)
    ELSE IF dst \notin Range(Neighbors(src))
    THEN Fail(w)
    ELSE LET moved_chip == w.stacks[src][1]
             popped == [w.stacks EXCEPT ![src] = SubSeq(@, 2, Len(@))]
         IN  [w EXCEPT !.stacks = [popped EXCEPT ![dst] = Append(@, moved_chip)]]

\* execute_move, the mover effect, after the strategy answered (src, dst)
MoverEffect(w, src, dst) ==
    IF ~(0 <= src /\ src < 4 /\ 0 <= dst /\ dst < 4 /\ w.stacks[src] # <<>>)
    THEN Fail(w)
    ELSE IF dst \notin Range(Neighbors(src))
    THEN Fail(w)
    ELSE LET moved_chip == Top(w.stacks[src])
             popped == [w.stacks EXCEPT ![src] = Pop(@)]
         IN  [w EXCEPT !.stacks = [popped EXCEPT ![dst] = Append(@, moved_chip)]]

\* a drawer effect that draws the last chip of the deck
DrawerDrawLast(w, p) ==
    [w EXCEPT !.hand[p] = Append(@, w.deck[p][Len(w.deck[p])]),
              !.deck[p] = SubSeq(@, 1, Len(@) - 1)]

\* execute_move, the drawer effect up to the strategy's follow-up:
\* player.draw_hand(1) (the caller has checked that the deck is not empty)
DrawerDraw(w, p) ==
    [w EXCEPT !.hand[p] = @ \o DrawResult(w.deck[p], 1),
              !.deck[p] = DrawRest(@, 1)]

\* execute_move, the drawer effect after the strategy answered
\* (chip_to_play, pos_to_play)
DrawerEffect(w, p, chip_to_play, pos_to_play) ==
    PlayChip(w, p, chip_to_play, pos_to_play, TRUE)

\* an execute_move whose CHECK branch forgets
\* "self.players_checked[self.active_player_idx] = True"
ExecuteMoveForgetsCheck(w, p, move, mf, df) ==
    CASE move.move_type = "CHECK" -> w
      [] move.move_type = "DISCARD" ->
           [w EXCEPT !.hand[p] = RemoveFirst(@, move.chip),
                     !.discarded = @ \cup {move.chip}]
      [] OTHER ->
           PlayChip(w, p, move.chip, move.target_pos, move.move_type = "PLAY_FACE_DOWN")

\* an execute_move whose DISCARD branch has no
\* "assert move.chip in player.hand.chips" and ignores a chip that is absent
ExecuteMoveDiscardsAbsent(w, p, move, mf, df) ==
    CASE move.move_type = "CHECK" ->
           [w EXCEPT !.players_checked[p] = TRUE]
      [] move.move_type = "DISCARD" ->
           IF move.chip \notin Range(w.hand[p])
           THEN [w EXCEPT !.discarded = @ \cup {move.chip}]
           ELSE [w EXCEPT !.hand[p] = RemoveFirst(@, move.chip),
                          !.discarded = @ \cup {move.chip}]
      [] move.move_type = "PLAY_FACE_DOWN" ->
           PlayChip(w, p, move.chip, move.target_pos, TRUE)
      [] OTHER ->
           LET w1 == PlayChip(w, p, move.chip, move.target_pos, FALSE)
           IN  IF w1.failed THEN w1
               ELSE IF KindOf(move.chip) = "mover"
               THEN MoverEffect(w1, mf[1], mf[2])
               ELSE IF KindOf(move.chip) = "drawer" /\ w1.deck[p] # <<>>
               THEN DrawerEffect(DrawerDraw(w1, p), p, df[1], df[2])
               ELSE w1

\* an execute_move whose DISCARD branch has no
\* "player.hand.chips.remove(move.chip)"
ExecuteMoveKeepsDiscard(w, p, move, mf, df) ==
    CASE move.move_type = "CHECK" ->
           [w EXCEPT !.players_checked[p] = TRUE]
      [] move.move_type = "DISCARD" ->
           IF move.chip \notin Range(w.hand[p])
           THEN Fail(w)
           ELSE w
      [] move.move_type = "PLAY_FACE_DOWN" ->
           PlayChip(w, p, move.chip, move.target_pos, TRUE)
      [] OTHER ->
           LET w1 == PlayChip(w, p, move.chip, move.target_pos, FALSE)
           IN  IF w1.failed THEN w1
               ELSE IF KindOf(move.chip) = "mover"
               THEN MoverEffect(w1, mf[1], mf[2])
               ELSE IF KindOf(move.chip) = "drawer" /\ w1.deck[p] # <<>>
               THEN DrawerEffect(DrawerDraw(w1, p), p, df[1], df[2])
               ELSE w1

\* Game.execute_move; mf = (src, dst) is the mover follow-up the strategy
\* gives on the board it is shown, df = (chip, pos) its drawer follow-up
ExecuteMove(w, p, move, mf, df) ==
    CASE move.move_type = "CHECK" ->
           [w EXCEPT !.players_checked[p] = TRUE]
      [] move.move_type = "DISCARD" ->
           IF move.chip \notin Range(w.hand[p])
           THEN Fail(w)
           ELSE [w EXCEPT !.hand[p] = RemoveFirst(@, move.chip),
                          !.discarded = @ \cup {move.chip}]
      [] move.move_type = "PLAY_FACE_DOWN" ->
           PlayChip(w, p, move.chip, move.target_pos, TRUE)
      [] move.move_type = "PLAY_FACE_UP" ->
           LET w1 == PlayChip(w, p, move.chip, move.target_pos, FALSE)
           IN  IF w1.failed THEN w1
               ELSE IF KindOf(move.chip) = "mover"
               THEN MoverEffect(w1, mf[1], mf[2])
               ELSE IF KindOf(move.chip) = "drawer"
               THEN IF w1.deck[p] = <<>> THEN w1
                    ELSE DrawerEffect(DrawerDraw(w1, p), p, df[1], df[2])
               ELSE w1

\* which follow-up execute_move asks for after this move ("none": no
\* follow-up is requested)
FollowUp(w, p, move) ==
    IF move.move_type # "PLAY_FACE_UP" THEN "none"
    ELSE IF PlayChip(w, p, move.chip, move.target_pos, FALSE).failed THEN "none"
    ELSE IF KindOf(move.chip) = "mover" THEN "mover"
    ELSE IF KindOf(move.chip) = "drawer" /\ w.deck[p] # <<>> THEN "drawer"
    ELSE "none"

\* a run_game that never switches the player
NextActiveStays(active_player_idx, players_checked) == active_player_idx

\* a run_game that switches the player whether or not the next has checked
NextActiveSwitches(active_player_idx, players_checked) ==
    (active_player_idx + 1) % 2

\* run_game, after play_turn: the index of the next active player
\*   next_idx = (self.active_player_idx + 1) % 2
\*   if not self.players_checked[next_idx]: self.active_player_idx = next_idx
NextActive(active_player_idx, players_checked) ==
    LET next_idx == (active_player_idx + 1) % 2
    IN  IF ~players_checked[next_idx] THEN next_idx ELSE active_player_idx

\* a run_game with "if any(self.players_checked)"
AnyChecked(players_checked) == \E p \in Players : players_checked[p]

\* run_game, after play_turn: if all(self.players_checked): finished = True
AllChecked(players_checked) == \A p \in Players : players_checked[p]

\* one iteration of the loop of run_game, after play_turn changed the
\* checked-flags to players_checked
AfterTurn(g, players_checked) ==
    IF AllChecked(players_checked)
    THEN [g EXCEPT !.players_checked = players_checked, !.finished = TRUE]
    ELSE [g EXCEPT !.players_checked = players_checked,
                   !.active_player_idx = NextActive(@, players_checked)]

(***************************************************************************)
(* Strategies (PlayerRandom).  The strategy plays the first chip of its    *)
(* hand; the strategies make budget more moves other than Check.           *)
(***************************************************************************)
\* PlayerRandom.get_move, with random.choice restricted to the move types
\* in types and random.randint(0, 3) to the positions in targets
GetMoveIn(p, types, targets) ==
    {Move("CHECK", NoChip, -1)}
    \cup
    (IF hand[p] = <<>> \/ budget <= 0 THEN {}
     ELSE LET chip == hand[p][1]
          IN  {Move("DISCARD", chip, -1) : t \in types \cap {"DISCARD"}}
              \cup {Move(t, chip, pos) :
                      t \in types \cap {"PLAY_FACE_DOWN", "PLAY_FACE_UP"},
                      pos \in targets})

\* PlayerRandom.get_move
GetMove(p) ==
    GetMoveIn(p, {"DISCARD", "PLAY_FACE_DOWN", "PLAY_FACE_UP"}, Positions)

\* PlayerRandom.get_mover_followup on the board it is shown
GetMoverFollowup(board) ==
    LET valid_sources == {i \in Positions : board[i] # <<>>}
    IN  IF valid_sources = {} THEN {<<-1, -1>>}
        ELSE {<<src, Neighbors(src)[k]>> : src \in valid_sources, k \in 1..2}

\* PlayerRandom.get_drawer_followup with the hand it holds after the draw
\* (random.choice(self.hand.chips): the model explores the first chip and
\* the chip just drawn)
GetDrawerFollowup(h) ==
    {<<chip, pos>> : chip \in {h[1], h[Len(h)]}, pos \in Positions}

(***************************************************************************)
(* Match.run_match, Game.run_game                                          *)
(***************************************************************************)
\* run_match: "Game 1" / "Game 2" / "Game 3": the stage is set, a Game is
\* created and appended
StartGame ==
    /\ pc = "new_game"
    /\ stage' = (CASE Len(games) = 0 -> "GAME1"
                   [] Len(games) = 1 -> "GAME2"
                   [] OTHER -> "GAME3")
    /\ games' = Append(games, NewGame)
    /\ pc' = "run_game"
    /\ UNCHANGED <<all_chips, draft_round, deck, hand, holdings, stacks,
                   is_hidden, discarded, match_winner, rng, budget,
                   cells, result>>

\* the state after execute_move returned world w in game g
TurnDone(w, g, isPlay) ==
    /\ hand' = w.hand
    /\ deck' = w.deck
    /\ stacks' = w.stacks
    /\ is_hidden' = w.is_hidden
    /\ discarded' = w.discarded
    /\ budget' = IF isPlay THEN budget - 1 ELSE budget
    /\ IF w.failed
       THEN /\ games' = [games EXCEPT ![Len(games)] = g]
            /\ pc' = "failed_move"
       ELSE LET g2 == AfterTurn(g, w.players_checked)
            IN  /\ games' = [games EXCEPT ![Len(games)] = g2]
                /\ pc' = IF g2.finished THEN "calculate_score" ELSE "run_game"
    /\ UNCHANGED <<stage, all_chips, draft_round, holdings, match_winner, rng,
                   cells, result>>

\* the positions a strategy that ignores the interface may answer: 0..3,
\* the negative indexes of a list of 4, and one position beyond each end
AnyPositions == (0 - BOARD_SIZE - 1)..BOARD_SIZE

\* the chips such a strategy of player p may answer, in world w: the chips
\* of its hand, no chip, a chip of the other hand, of its deck, of the board
AnyChips(w, p) ==
    Range(w.hand[p]) \cup {NoChip}
    \cup {w.hand[1 - p][i] : i \in 1..Min(1, Len(w.hand[1 - p]))}
    \cup {w.deck[p][i] : i \in 1..Min(1, Len(w.deck[p]))}
    \cup {Top(w.stacks[i]) : i \in {j \in Positions : w.stacks[j] # <<>>}}

\* get_move of a strategy that ignores the interface
GetMoveAny(p) ==
    {Move("CHECK", NoChip, -1)}
    \cup
    (IF budget <= 0 THEN {}
     ELSE {Move("DISCARD", chip, -1) : chip \in AnyChips(World, p)}
          \cup {Move(t, chip, pos) : t \in {"PLAY_FACE_DOWN", "PLAY_FACE_UP"},
                                     chip \in AnyChips(World, p),
                                     pos \in AnyPositions})

\* get_mover_followup of such a strategy
AnyMoverFollowup == {<<src, dst>> : src \in -1..BOARD_SIZE, dst \in -1..BOARD_SIZE}

\* get_drawer_followup of such a strategy, in the world after the draw
AnyDrawerFollowup(w, p) ==
    {<<chip, pos>> : chip \in AnyChips(w, p), pos \in AnyPositions}

\* one iteration of the loop of Game.run_game: play_turn (get_move,
\* execute_move with its follow-up), then the end-of-turn bookkeeping;
\* moves is the set of moves the strategy of the active player may return,
\* any: does the strategy ignore the interface in its follow-ups?
PlayTurnOf(moves, any) ==
    /\ pc = "run_game"
    /\ ~Game.finished
    /\ LET g == Game
           p == g.active_player_idx
       IN  IF g.players_checked[p]
           THEN TurnDone(World, g, FALSE)
           ELSE \E move \in moves :
                  LET fu == FollowUp(World, p, move)
                      w1 == PlayChip(World, p, move.chip, move.target_pos, FALSE)
                      g1 == [g EXCEPT !.log =
                               IF fu = "none" THEN Append(@, <<p, move.move_type>>)
                               ELSE Append(Append(@, <<p, move.move_type>>),
                                           <<p, IF fu = "mover" THEN "MOVER_FOLLOWUP"
                                                ELSE "DRAWER_FOLLOWUP">>)]
                  IN  \E mf \in (IF fu # "mover" THEN {<<-1, -1>>}
                                 ELSE IF any THEN AnyMoverFollowup
                                 ELSE GetMoverFollowup(w1.stacks)) :
                      \E df \in (IF fu # "drawer" THEN {<<NoChip, -1>>}
                                 ELSE IF any THEN AnyDrawerFollowup(DrawerDraw(w1, p), p)
                                 ELSE GetDrawerFollowup(DrawerDraw(w1, p).hand[p])) :
                         TurnDone(ExecuteMove(World, p, move, mf, df),
                                  [g1 EXCEPT !.asked = [player |-> p, move |-> move,
                                                        mf |-> mf, df |-> df]],
                                  move.move_type # "CHECK")

\* a turn with a strategy that keeps to the interface in its follow-ups
PlayTurnWith(moves) == PlayTurnOf(moves, FALSE)

\* a turn of a game played by the PlayerRandom strategies
PlayTurn == PlayTurnWith(GetMove(Game.active_player_idx))

(***************************************************************************)
(* Scoring                                                                 *)
(***************************************************************************)
\* calculate_score: holdings_counts.get(kind, 0)
HoldingsCount(h, kind) == Cardinality({i \in 1..Len(h) : KindOf(h[i]) = kind})

\* calculate_score: is the chip on top of stack n_idx there and face-up?
FaceUpTop(n_idx) == stacks[n_idx] # <<>> /\ ~is_hidden[Top(stacks[n_idx])]

\* calculate_score: the loop "for n_idx in neighbors"
FaceUpNeighbors(i) ==
    LET neighbors == Neighbors(i)
    IN  (IF FaceUpTop(neighbors[1]) THEN 1 ELSE 0)
        + (IF FaceUpTop(neighbors[2]) THEN 1 ELSE 0)

\* a chip_score without the branch for the stacker
ChipScoreNoStacker(i) ==
    IF KindOf(Top(stacks[i])) = "binder" THEN 1 + FaceUpNeighbors(i) ELSE 1

\* calculate_score: chip_score of the non-empty stack i with a face-up top
ChipScore(i) ==
    LET top_chip == Top(stacks[i])
    IN  IF KindOf(top_chip) = "stacker" THEN Len(stacks[i])
        ELSE IF KindOf(top_chip) = "binder" THEN 1 + FaceUpNeighbors(i)
        ELSE 1

\* calculate_score: what one iteration of "for i, stack in enumerate(...)"
\* adds to the score of player p
StackScore(p, i) ==
    IF stacks[i] = <<>> THEN 0
    ELSE IF is_hidden[Top(stacks[i])] THEN 0
    ELSE ChipScore(i) * HoldingsCount(holdings[p], KindOf(Top(stacks[i])))

\* calculate_score: the score of player p after the stacks 0..i
RECURSIVE ScoreUpTo(_, _)
ScoreUpTo(p, i) == IF i < 0 THEN 0 ELSE ScoreUpTo(p, i - 1) + StackScore(p, i)

PlayerScore(p) == ScoreUpTo(p, BOARD_SIZE - 1)

\* calculate_score: scores[player.name] = score
Scores == [n \in {PlayerName(p) : p \in Players} |->
             IF n = PlayerName(0) THEN PlayerScore(0) ELSE PlayerScore(1)]

\* calculate_score: "Determine winner"
WinnerOf(scores) ==
    IF scores[PlayerName(0)] > scores[PlayerName(1)] THEN PlayerName(0)
    ELSE IF scores[PlayerName(1)] > scores[PlayerName(0)] THEN PlayerName(1)
    ELSE None

\* a calculate_score that reads the top chips with stack.pop()
ScoreEffectPops ==
    /\ games' = [games EXCEPT ![Len(games)].scores = Scores,
                              ![Len(games)].winner = WinnerOf(Scores)]
    /\ stacks' = [i \in Positions |->
                    IF stacks[i] = <<>> THEN <<>> ELSE Pop(stacks[i])]
    /\ UNCHANGED <<stage, all_chips, draft_round, deck, hand, holdings,
                   is_hidden, discarded, match_winner, rng, budget,
                   cells, result>>

\* Game.calculate_score: what it does to the state
ScoreEffect ==
    /\ games' = [games EXCEPT ![Len(games)].scores = Scores,
                              ![Len(games)].winner = WinnerOf(Scores)]
    /\ UNCHANGED <<stage, all_chips, draft_round, deck, hand, holdings, stacks,
                   is_hidden, discarded, match_winner, rng, budget,
                   cells, result>>

\* Game.calculate_score, called by run_match when run_game returned
CalculateScore ==
    /\ pc = "calculate_score"
    /\ ScoreEffect
    /\ pc' = IF stage = "GAME3" THEN "final_winner" ELSE "cleanup_board"

(***************************************************************************)
(* Cleanup                                                                 *)
(***************************************************************************)
\* a cleanup_board with "if" for "while": it pops one face-up chip at most
StripOne(stack) ==
    IF stack # <<>> /\ ~is_hidden[Top(stack)] THEN Pop(stack) ELSE stack

\* cleanup_board: while stack and not stack[-1].is_hidden: stack.pop()
RECURSIVE StripFaceUp(_)
StripFaceUp(stack) ==
    IF stack # <<>> /\ ~is_hidden[Top(stack)] THEN StripFaceUp(Pop(stack))
    ELSE stack

\* cleanup_board: the stacks after the loop over all stacks
CleanStacks == [i \in Positions |-> StripFaceUp(stacks[i])]

\* cleanup_board: if stack: stack[-1].is_hidden = False
CleanHidden ==
    [c \in Chips |->
       IF \E i \in Positions : CleanStacks[i] # <<>> /\ Top(CleanStacks[i]) = c
       THEN FALSE ELSE is_hidden[c]]

\* cleanup_board: the chips appended to discard_pile
CleanDiscards ==
    UNION {Range(stacks[i]) \ Range(CleanStacks[i]) : i \in Positions}

\* a run_match that offers the revision whatever the winner
RevisionAlways == TRUE

\* run_match: "if not game1.winner" (is holdings revision offered?)
RevisionOffered == games[1].winner = None

\* Game.cleanup_board: what it does to the state
CleanupEffect ==
    /\ stacks' = CleanStacks
    /\ is_hidden' = CleanHidden
    /\ discarded' = discarded \cup CleanDiscards
    /\ UNCHANGED <<stage, all_chips, draft_round, deck, hand, holdings, games,
                   match_winner, rng, budget,
                   cells, result>>

\* Game.cleanup_board, called by run_match after Game 1 and Game 2
CleanupBoard ==
    /\ pc = "cleanup_board"
    /\ CleanupEffect
    /\ pc' = IF stage = "GAME2" THEN "check_match_winner"
             ELSE IF RevisionOffered THEN "update_holdings" ELSE "draw_hand"

(***************************************************************************)
(* Between the games                                                       *)
(***************************************************************************)
\* PlayerRandom.consider_update_holdings when it revises: the holdings go
\* back to the deck (deck.chips.extend(holdings.chips)) and draw_holdings
\* shuffles the deck with the generator in state r
RevisedDeck(p, r) == Shuffle(deck[p] \o holdings[p], r)

\* a consider_update_holdings that forgets "self.draw_holdings()"
ConsiderUpdateHoldingsClears ==
    /\ pc = "update_holdings"
    /\ \E revise \in [Players -> BOOLEAN] :
          /\ holdings' = [p \in Players |-> IF revise[p] THEN <<>> ELSE holdings[p]]
          /\ deck' = [p \in Players |->
                        IF revise[p] THEN deck[p] \o holdings[p] ELSE deck[p]]
    /\ pc' = "draw_hand"
    /\ UNCHANGED <<stage, all_chips, draft_round, hand, stacks, is_hidden,
                   discarded, games, match_winner, rng, budget,
                   cells, result>>

\* run_match: "for p in self.players: p.consider_update_holdings()";
\* revise[p]: the player's random.random() made it revise
ConsiderUpdateHoldings ==
    /\ pc = "update_holdings"
    /\ \E revise \in [Players -> BOOLEAN] :
          LET r(p) == IF p = 1 /\ revise[0] THEN NextRng(rng) ELSE rng
          IN  /\ IF \A p \in Players :
                      revise[p] => DrawAllowed(RevisedDeck(p, r(p)), HOLDINGS_SIZE)
                 THEN /\ holdings' = [p \in Players |->
                                        IF ~revise[p] THEN holdings[p]
                                        ELSE DrawResult(RevisedDeck(p, r(p)), HOLDINGS_SIZE)]
                      /\ deck' = [p \in Players |->
                                    IF ~revise[p] THEN deck[p]
                                    ELSE DrawRest(RevisedDeck(p, r(p)), HOLDINGS_SIZE)]
                      /\ pc' = "draw_hand"
                 ELSE /\ pc' = "failed_draw"
                      /\ UNCHANGED <<holdings, deck>>
              /\ rng' = (IF revise[0] /\ revise[1] THEN NextRng(NextRng(rng))
                         ELSE IF revise[0] \/ revise[1] THEN NextRng(rng)
                         ELSE rng)
    /\ UNCHANGED <<stage, all_chips, draft_round, hand, stacks, is_hidden,
                   discarded, games, match_winner, budget,
                   cells, result>>

\* a run_match with "count = 3" for "count = min(3, len(p.deck))"
DrawCountThree(p) == NEXT_HAND

\* run_match: count = min(3, len(p.deck))
DrawCount(p) == Min(NEXT_HAND, Len(deck[p]))

\* run_match: "Draw for Game 2" / "Draw for Game 3"
DrawHand ==
    /\ pc = "draw_hand"
    /\ IF \A p \in Players : DrawAllowed(deck[p], DrawCount(p))
       THEN /\ hand' = [p \in Players |-> hand[p] \o DrawResult(deck[p], DrawCount(p))]
            /\ deck' = [p \in Players |-> DrawRest(deck[p], DrawCount(p))]
            /\ pc' = "new_game"
       ELSE /\ pc' = "failed_draw"
            /\ UNCHANGED <<hand, deck>>
    /\ UNCHANGED <<stage, all_chips, draft_round, holdings, stacks, is_hidden,
                   discarded, games, match_winner, rng, budget,
                   cells, result>>

(***************************************************************************)
(* The match winner                                                        *)
(***************************************************************************)
\* _check_match_winner: wins[name] after the loop over self.games
Wins(gs, name) == Cardinality({i \in 1..Len(gs) : gs[i].winner = name})

\* _check_match_winner: ties after the loop over self.games
Ties(gs) ==
    Cardinality({i \in 1..Len(gs) :
                   gs[i].winner # PlayerName(0) /\ gs[i].winner # PlayerName(1)})

\* a _check_match_winner that looks at the single win of p1 before that of p0
CheckMatchWinnerBobFirst(gs) ==
    LET p0 == PlayerName(0)
        p1 == PlayerName(1)
    IN  IF Wins(gs, p0) >= 2 THEN p0
        ELSE IF Wins(gs, p1) >= 2 THEN p1
        ELSE IF Wins(gs, p1) = 1 /\ Ties(gs) >= 1 THEN p1
        ELSE IF Wins(gs, p0) = 1 /\ Ties(gs) >= 1 THEN p0
        ELSE None

\* a _check_match_winner without the two tests of a single win and a tie
CheckMatchWinnerNoSingle(gs) ==
    LET p0 == PlayerName(0)
        p1 == PlayerName(1)
    IN  IF Wins(gs, p0) >= 2 THEN p0
        ELSE IF Wins(gs, p1) >= 2 THEN p1
        ELSE IF Len(gs) = 3
        THEN IF Wins(gs, p0) > Wins(gs, p1) THEN p0
             ELSE IF Wins(gs, p1) > Wins(gs, p0) THEN p1
             ELSE None
        ELSE None

\* Match._check_match_winner
CheckMatchWinnerOf(gs) ==
    LET p0 == PlayerName(0)
        p1 == PlayerName(1)
    IN  IF Wins(gs, p0) >= 2 THEN p0
        ELSE IF Wins(gs, p1) >= 2 THEN p1
        ELSE IF Wins(gs, p0) = 1 /\ Ties(gs) >= 1 THEN p0
        ELSE IF Wins(gs, p1) = 1 /\ Ties(gs) >= 1 THEN p1
        ELSE IF Len(gs) = 3
        THEN IF Wins(gs, p0) > Wins(gs, p1) THEN p0
             ELSE IF Wins(gs, p1) > Wins(gs, p0) THEN p1
             ELSE None
        ELSE None

\* _check_match_winner: is "if len(self.games) == 3" reached and true, so
\* that the total wins are compared?  (none of the four returns before it
\* was taken)
ComparesWins(gs) ==
    LET p0 == PlayerName(0)
        p1 == PlayerName(1)
    IN  /\ ~(Wins(gs, p0) >= 2)
        /\ ~(Wins(gs, p1) >= 2)
        /\ ~(Wins(gs, p0) = 1 /\ Ties(gs) >= 1)
        /\ ~(Wins(gs, p1) = 1 /\ Ties(gs) >= 1)
        /\ Len(gs) = 3

\* a run_match that does not return when the match is decided after Game 2
CheckMatchWinnerGoesOn ==
    /\ pc = "check_match_winner"
    /\ match_winner' = CheckMatchWinnerOf(games)
    /\ pc' = IF RevisionOffered THEN "update_holdings" ELSE "draw_hand"
    /\ UNCHANGED <<stage, all_chips, draft_round, deck, hand, holdings, stacks,
                   is_hidden, discarded, games, rng, budget,
                   cells, result>>

\* run_match: "Check termination" after Game 2
CheckMatchWinner ==
    /\ pc = "check_match_winner"
    /\ match_winner' = CheckMatchWinnerOf(games)
    /\ pc' = IF match_winner' # None THEN "done"
             ELSE IF RevisionOffered THEN "update_holdings" ELSE "draw_hand"
    /\ UNCHANGED <<stage, all_chips, draft_round, deck, hand, holdings, stacks,
                   is_hidden, discarded, games, rng, budget,
                   cells, result>>

\* run_match: the end, after Game 3
FinalWinner ==
    /\ pc = "final_winner"
    /\ match_winner' = (IF CheckMatchWinnerOf(games) = None THEN "Tie"
                        ELSE CheckMatchWinnerOf(games))
    /\ pc' = "done"
    /\ UNCHANGED <<stage, all_chips, draft_round, deck, hand, holdings, stacks,
                   is_hidden, discarded, games, rng, budget,
                   cells, result>>

(***************************************************************************)
(* Specifications                                                          *)
(***************************************************************************)
\* the steps of run_match other than the turns of a game
MatchStep ==
    \/ DraftBegin
    \/ DraftRound
    \/ InitialDraw
    \/ StartGame
    \/ CalculateScore
    \/ CleanupBoard
    \/ ConsiderUpdateHoldings
    \/ DrawHand
    \/ CheckMatchWinner
    \/ FinalWinner

Next ==
    \/ MatchStep
    \/ PlayTurn

\* a match run: Match().run_match()
Spec == Init /\ [][Next]_vars

\* PlayerRandom.get_move of a cautious player: it never plays face-down and
\* plays face-up on position 0 only
GetMoveCautious(p) == GetMoveIn(p, {"DISCARD", "PLAY_FACE_UP"}, {0})

PlayTurnCautious == PlayTurnWith(GetMoveCautious(Game.active_player_idx))

InitTurns ==
    /\ Constructed
    /\ rng \in 0..(NumSeeds - 1)
    /\ budget = MaxCautiousPlays
    /\ NoCastle

NextTurns ==
    \/ MatchStep
    \/ PlayTurnCautious

\* a match run with cautious players, who make more moves
SpecTurns == InitTurns /\ [][NextTurns]_vars

(***************************************************************************)
(* Scoring and cleanup on their own: the end of Game 1 on every board of   *)
(* at most MaxBoardChips chips, taken from BoardChipList, in any order,    *)
(* at any positions, each face-up or hidden.                               *)
(***************************************************************************)
\* a binder, a stacker, a mover, a binder, a drawer, a stacker, ...
BoardChipList == <<28, 10, 1, 29, 19, 11, 2, 30>>

BoardChips == {BoardChipList[i] : i \in 1..Min(MaxBoardChips, Len(BoardChipList))}

\* the lists without repetition of chips of S
RECURSIVE ListsOf(_)
ListsOf(S) == {<<>>} \cup UNION {{<<c>> \o t : t \in ListsOf(S \ {c})} : c \in S}

\* the board that holds the chips of list o, cut at a, b and c
BoardOf(o, a, b, c) ==
    [i \in Positions |->
       CASE i = 0 -> SubSeq(o, 1, a)
         [] i = 1 -> SubSeq(o, a + 1, b)
         [] i = 2 -> SubSeq(o, b + 1, c)
         [] OTHER -> SubSeq(o, c + 1, Len(o))]

\* the holdings the two players may have drawn
HoldingsChoices ==
    {[p \in Players |-> IF p = 0 THEN h0 ELSE h1] :
        h0 \in {<<12, 13, 31>>, <<3, 21, 32>>},
        h1 \in {<<14, 33, 34>>, <<4, 22, 15>>}}

\* the 8 chips left in each deck after the draws of Game 1
DecksLeft ==
    [p \in Players |->
       IF p = 0 THEN <<5, 6, 7, 8, 16, 23, 24, 35>>
       ELSE <<9, 17, 18, 25, 26, 27, 36, 20>>]

\* the chips that are in no deck, holdings, hand or stack
ChipsOutside(d, h, hd, b) ==
    Chips \ UNION ({Range(d[p]) : p \in Players} \cup {Range(h[p]) : p \in Players}
                   \cup {Range(hd[p]) : p \in Players}
                   \cup {Range(b[i]) : i \in Positions})

\* the chips of BoardChips that are not in the list o, which stay in the
\* hand of player 0
HandsLeft(o) ==
    LET NotPlayed(c) == c \in BoardChips /\ c \notin Range(o)
    IN  [p \in Players |-> IF p = 0 THEN SelectSeq(BoardChipList, NotPlayed) ELSE <<>>]

\* a Game whose run_game has returned
FinishedGame ==
    [NewGame EXCEPT !.players_checked = [p \in Players |-> TRUE],
                    !.finished = TRUE,
                    !.log = <<<<0, "CHECK">>, <<1, "CHECK">>>>]

\* the end of Game 1: each player drew 3 holdings and 7 hand chips, 8 chips
\* are left in each deck, the hand chips were played, discarded or kept
InitBoard ==
    /\ pc = "calculate_score"
    /\ stage = "GAME1"
    /\ all_chips = <<>>
    /\ draft_round = DRAFT_ROUNDS
    /\ \E o \in ListsOf(BoardChips) :
       \E a \in 0..Len(o) : \E b \in a..Len(o) : \E c \in b..Len(o) :
       \E hid \in SUBSET Range(o) :
       \E h \in HoldingsChoices :
          /\ stacks = BoardOf(o, a, b, c)
          /\ is_hidden = [ch \in Chips |-> ch \in hid]
          /\ holdings = h
          /\ hand = HandsLeft(o)
          /\ discarded = ChipsOutside(DecksLeft, h, HandsLeft(o), BoardOf(o, a, b, c))
    /\ deck = DecksLeft
    /\ games = <<FinishedGame>>
    /\ match_winner = None
    /\ rng = 0
    /\ budget = 0
    /\ NoCastle

\* calculate_score called once more on a game that is already scored
CalculateScoreAgain ==
    /\ pc = "cleanup_board"
    /\ ScoreEffect
    /\ pc' = pc

NextBoard ==
    \/ CalculateScore
    \/ CalculateScoreAgain
    \/ CleanupBoard

SpecBoard == InitBoard /\ [][NextBoard]_vars

(***************************************************************************)
(* The match winner on its own: every list of 2 or 3 games with scores up  *)
(* to MaxScore, at the place where run_match checks the match winner.      *)
(***************************************************************************)
\* a scored Game
ScoredGame(s0, s1) ==
    LET scores == [n \in {PlayerName(p) : p \in Players} |->
                     IF n = PlayerName(0) THEN s0 ELSE s1]
    IN  [FinishedGame EXCEPT !.scores = scores, !.winner = WinnerOf(scores)]

ScoredGames == {ScoredGame(s0, s1) : s0 \in 0..MaxScore, s1 \in 0..MaxScore}

InitWinner ==
    /\ games \in [1..2 -> ScoredGames] \cup [1..3 -> ScoredGames]
    /\ pc = (IF Len(games) = 2 THEN "check_match_winner" ELSE "final_winner")
    /\ stage = (IF Len(games) = 2 THEN "GAME2" ELSE "GAME3")
    /\ all_chips = <<>>
    /\ draft_round = DRAFT_ROUNDS
    /\ stacks = [i \in Positions |-> <<>>]
    /\ is_hidden = [c \in Chips |-> FALSE]
    /\ holdings \in HoldingsChoices
    /\ deck = [p \in Players |-> Take(DecksLeft[p], 2)]
    /\ hand = [p \in Players |-> <<>>]
    /\ discarded = ChipsOutside(deck, holdings, hand, stacks)
    /\ match_winner = None
    /\ rng = 0
    /\ budget = 0
    /\ NoCastle

NextWinner ==
    \/ CheckMatchWinner
    \/ FinalWinner

SpecWinner == InitWinner /\ [][NextWinner]_vars

(***************************************************************************)
(* The draft on its own, with other strategies than PlayerRandom: a        *)
(* strategy's _draft_choose_3 answers with the chips at chosen places of   *)
(* the batch.                                                              *)
(***************************************************************************)
\* splits <<keep, give>> of the places 1..6 of a batch into 3 and 3
SplitPatterns ==
    << <<<<1, 2, 3>>, <<4, 5, 6>>>>,
       <<<<4, 5, 6>>, <<1, 2, 3>>>>,
       <<<<1, 3, 5>>, <<2, 4, 6>>>>,
       <<<<6, 4, 2>>, <<5, 3, 1>>>>,
       <<<<1, 2, 6>>, <<3, 4, 5>>>> >>

\* answers that break the contract of _draft_choose_3: parts that are not of
\* 3 chips, a chip of the batch given twice, a chip that is not of the batch
\* (place 7)
BadPatterns ==
    { <<<<1, 2>>, <<3, 4, 5, 6>>>>,
      <<<<1, 2, 3, 4>>, <<5, 6>>>>,
      <<<<1, 2, 3>>, <<4, 5>>>>,
      <<<<>>, <<>>>>,
      <<<<1, 2, 3>>, <<4, 5, 5>>>>,
      <<<<1, 2, 3>>, <<3, 4, 5>>>>,
      <<<<1, 2, 7>>, <<4, 5, 6>>>>,
      <<<<1, 2, 3>>, <<4, 7, 6>>>> }

\* a chip that is not in the batch: the next chip of the pool, or, in the
\* last round, the first chip of the deck of player 0
ForeignChip ==
    IF Len(all_chips) > DRAFT_BATCH THEN all_chips[DRAFT_BATCH + 1] ELSE deck[0][1]

\* the chips at the places of a pattern
ChipsAt(draft_batch_6, places) ==
    [i \in 1..Len(places) |->
       IF places[i] <= Len(draft_batch_6) THEN draft_batch_6[places[i]] ELSE ForeignChip]

SplitBy(draft_batch_6, pattern) ==
    <<ChipsAt(draft_batch_6, pattern[1]), ChipsAt(draft_batch_6, pattern[2])>>

\* _draft_choose_3 of the strategies that keep the contract
DraftChooseFair(draft_batch_6) ==
    {SplitBy(draft_batch_6, SplitPatterns[k]) :
        k \in 1..Min(NumSplits, Len(SplitPatterns))}

\* _draft_choose_3 of the strategies that may break it
DraftChooseAny(draft_batch_6) ==
    DraftChooseFair(draft_batch_6)
    \cup {SplitBy(draft_batch_6, pattern) : pattern \in BadPatterns}

\* a round of the draft with a strategy that keeps the contract
DraftRoundFair ==
    /\ pc = "draft_round"
    /\ draft_round < DRAFT_ROUNDS
    /\ \E split \in DraftChooseFair(Take(all_chips, DRAFT_BATCH)) : DraftRoundWith(split)
    /\ rng' = rng

\* a round of the draft with any strategy
DraftRoundAny ==
    /\ pc = "draft_round"
    /\ draft_round < DRAFT_ROUNDS
    /\ \E split \in DraftChooseAny(Take(all_chips, DRAFT_BATCH)) : DraftRoundWith(split)
    /\ rng' = rng

NextDraft ==
    \/ DraftBegin
    \/ DraftRoundFair

\* Match.draft with strategies that keep the contract
SpecDraft == Init /\ [][NextDraft]_vars

NextDraftAny ==
    \/ DraftBegin
    \/ DraftRoundAny

\* Match.draft with any strategies
SpecDraftAny == Init /\ [][NextDraftAny]_vars

(***************************************************************************)
(* One move on its own: Game 3 on every board of at most MaxMoveChips      *)
(* chips, with decks that are empty or hold MaxDeckLeft chips; the         *)
(* strategies ignore the interface; one move other than Check is made.     *)
(***************************************************************************)
MoveBoardChips == {BoardChipList[i] : i \in 1..Min(MaxMoveChips, Len(BoardChipList))}

\* the hands and holdings of the players in these games
MoveHands == [p \in Players |-> IF p = 0 THEN <<3, 21, 12>> ELSE <<4, 22>>]

MoveHoldings == [p \in Players |-> IF p = 0 THEN <<13, 14, 31>> ELSE <<15, 33, 34>>]

InitMove ==
    /\ pc = "run_game"
    /\ stage = "GAME3"
    /\ all_chips = <<>>
    /\ draft_round = DRAFT_ROUNDS
    /\ \E o \in ListsOf(MoveBoardChips) :
       \E a \in 0..Len(o) : \E b \in a..Len(o) : \E c \in b..Len(o) :
       \E hid \in SUBSET Range(o) :
       \E n \in {0, MaxDeckLeft} :
          /\ stacks = BoardOf(o, a, b, c)
          /\ is_hidden = [ch \in Chips |-> ch \in hid]
          /\ deck = [p \in Players |-> SubSeq(DecksLeft[p], 1, n)]
          /\ discarded = ChipsOutside([p \in Players |-> SubSeq(DecksLeft[p], 1, n)],
                                      MoveHoldings, MoveHands, BoardOf(o, a, b, c))
    /\ hand = MoveHands
    /\ holdings = MoveHoldings
    /\ games = <<ScoredGame(0, 0), ScoredGame(0, 0), NewGame>>
    /\ match_winner = None
    /\ rng = 0
    /\ budget = 1
    /\ NoCastle

\* a turn of a game played by strategies that ignore the interface
PlayTurnAny == PlayTurnOf(GetMoveAny(Game.active_player_idx), TRUE)

NextMove == PlayTurnAny

SpecMove == InitMove /\ [][NextMove]_vars

(***************************************************************************)
(* One game on its own, played to its end by strategies that return any    *)
(* legal move: Game 3 on an empty board, with hands of at most MaxHand     *)
(* chips and decks of at most MaxGameDeck chips.                           *)
(***************************************************************************)
\* the positions on which the strategies of these games play a chip from
\* the hand (a follow-up may name every position)
GameTargets == {0, 3}

\* the hands the players hold at most when the game starts
GameHands == [p \in Players |-> IF p = 0 THEN <<21, 3, 12>> ELSE <<4, 22, 30>>]

\* get_move of a strategy that returns legal moves: Check, or a chip of
\* its hand discarded or played on a position
GetMoveLegal(p) ==
    {Move("CHECK", NoChip, -1)}
    \cup {Move("DISCARD", chip, -1) : chip \in Range(hand[p])}
    \cup {Move(t, chip, pos) : t \in {"PLAY_FACE_DOWN", "PLAY_FACE_UP"},
                               chip \in Range(hand[p]),
                               pos \in GameTargets}

\* a Game as Game.__init__ leaves it (hand_sizes: the sizes of the two
\* hands when the game was created; not a field of the code's Game)
NewGameWith(h) ==
    [active_player_idx |-> 0,
     players_checked |-> [p \in Players |-> FALSE],
     finished |-> FALSE,
     scores |-> [n \in {} |-> 0],
     winner |-> None,
     log |-> <<>>,
     asked |-> NoRequest,
     hand_sizes |-> [p \in Players |-> Len(h[p])]]

InitGame ==
    /\ pc = "run_game"
    /\ stage = "GAME3"
    /\ all_chips = <<>>
    /\ draft_round = DRAFT_ROUNDS
    /\ stacks = [i \in Positions |-> <<>>]
    /\ is_hidden = [ch \in Chips |-> FALSE]
    /\ \E n0 \in 0..Min(MaxHand, Len(GameHands[0])) :
       \E n1 \in 0..Min(MaxHand, Len(GameHands[1])) :
       \E d \in 0..MaxGameDeck :
          LET h == [p \in Players |-> SubSeq(GameHands[p], 1, IF p = 0 THEN n0 ELSE n1)]
              dk == [p \in Players |-> SubSeq(DecksLeft[p], 1, d)]
          IN  /\ hand = h
              /\ deck = dk
              /\ discarded = ChipsOutside(dk, MoveHoldings, h, stacks)
              /\ games = <<ScoredGame(0, 0), ScoredGame(0, 0), NewGameWith(h)>>
              /\ budget = n0 + n1 + 2 * d
              /\ NoCastle
    /\ holdings = MoveHoldings
    /\ match_winner = None
    /\ rng = 0

\* a turn of a game played by strategies that return any legal move
PlayTurnLegal == PlayTurnWith(GetMoveLegal(Game.active_player_idx))

NextGame == PlayTurnLegal

\* run_game is a loop that calls play_turn until the game is finished
SpecGame == InitGame /\ [][NextGame]_vars /\ WF_vars(NextGame)

(***************************************************************************)
(* A match run, and also the rest of a match run from the end of a tied    *)
(* Game 1 or Game 2 on, with decks that the drawers of the games before    *)
(* have left short: of at most MaxDeckLeft chips, or of NEXT_HAND + 1.     *)
(***************************************************************************)
ShortDecks == 0..MaxDeckLeft \cup {NEXT_HAND + 1}

InitDraws ==
    /\ pc = "update_holdings"
    /\ \E n \in 1..2 :
          /\ games = [i \in 1..n |-> ScoredGame(0, 0)]
          /\ stage = (IF n = 1 THEN "GAME1" ELSE "GAME2")
    /\ all_chips = <<>>
    /\ draft_round = DRAFT_ROUNDS
    /\ stacks = [i \in Positions |-> <<>>]
    /\ is_hidden = [c \in Chips |-> FALSE]
    /\ \E n0 \in ShortDecks : \E n1 \in {0, n0} :
          deck = [p \in Players |-> SubSeq(DecksLeft[p], 1, IF p = 0 THEN n0 ELSE n1)]
    /\ hand = GameHands
    /\ holdings = MoveHoldings
    /\ discarded = ChipsOutside(deck, holdings, hand, stacks)
    /\ match_winner = None
    /\ rng \in 0..(NumSeeds - 1)
    /\ budget = MaxPlays
    /\ NoCastle

SpecDraws == (Init \/ InitDraws) /\ [][Next]_vars

(***************************************************************************)
(* Castle.count_tile_contacts on every castle whose cells are empty or     *)
(* hold one tile, some of them on top of another tile.                     *)
(***************************************************************************)
\* CastleCell.top (None for an empty cell)
CellTop(stack) == IF stack = <<>> THEN None ELSE stack[Len(stack)]

\* count_tile_contacts: the pairs (cell, neighbour) in the order the two
\* loops visit them
RECURSIVE VisitsFrom(_)
VisitsFrom(i) ==
    IF i > Len(CastleCells) THEN <<>>
    ELSE [k \in 1..Len(neighbours(CastleCells[i])) |->
            <<CastleCells[i], neighbours(CastleCells[i])[k]>>]
         \o VisitsFrom(i + 1)

Visits == VisitsFrom(1)

\* result.get(kind, 0)
Get(d, kind) == IF kind \in DOMAIN d THEN d[kind] ELSE 0

\* result[kind] = result.get(kind, 0) + 1
Increment(d, kind) ==
    [k \in DOMAIN d \cup {kind} |-> IF k = kind THEN Get(d, kind) + 1 ELSE d[k]]

\* count_tile_contacts: the dict result after the first n visits
RECURSIVE ContactsAfter(_)
ContactsAfter(n) ==
    IF n = 0 THEN <<>>
    ELSE LET d == ContactsAfter(n - 1)
             cell_top == CellTop(cells[Visits[n][1]])
             neighbour_top == CellTop(cells[Visits[n][2]])
         IN  IF cell_top = None \/ neighbour_top = None THEN d
             ELSE IF cell_top = neighbour_top THEN Increment(d, cell_top)
             ELSE d

\* count_tile_contacts: result when the loops are done
Contacts == ContactsAfter(Len(Visits))

\* Castle.count_tile_contacts: the assertion, then the halved counts
CountTileContacts ==
    /\ pc = "count_tile_contacts"
    /\ LET counted == Contacts
       IN  IF \A k \in DOMAIN counted : counted[k] % 2 = 0
           THEN /\ result' = [k \in DOMAIN counted |-> counted[k] \div 2]
                /\ pc' = "counted"
           ELSE /\ pc' = "failed_contacts"
                /\ UNCHANGED result
    /\ UNCHANGED <<stage, all_chips, draft_round, deck, hand, holdings, stacks,
                   is_hidden, discarded, games, match_winner, rng, budget,
                   cells>>

\* the kinds of the tiles in these castles
TileKinds == {TILE_KINDS[i] : i \in 1..Min(MaxTileKinds, Len(TILE_KINDS))}

\* the choices of the cells that hold a tile below the one on top
Raised == {{}, {<<1, 1>>}, {<<0, 0>>, <<2, 1>>}}

InitCastle ==
    /\ pc = "count_tile_contacts"
    /\ stage = "DRAFT"
    /\ all_chips = <<>>
    /\ draft_round = 0
    /\ deck = [p \in Players |-> <<>>]
    /\ hand = [p \in Players |-> <<>>]
    /\ holdings = [p \in Players |-> <<>>]
    /\ stacks = [i \in Positions |-> <<>>]
    /\ is_hidden = [c \in Chips |-> FALSE]
    /\ discarded = {}
    /\ games = <<>>
    /\ match_winner = None
    /\ rng = 0
    /\ budget = 0
    /\ \E tops \in [Range(CastleCells) -> TileKinds \cup {None}] :
       \E under \in Raised :
          cells = [c \in Range(CastleCells) |->
                     (IF c \in under THEN <<TILE_KINDS[Len(TILE_KINDS)]>> ELSE <<>>)
                     \o (IF tops[c] = None THEN <<>> ELSE <<tops[c]>>)]
    /\ result = <<>>

NextCastle == CountTileContacts

SpecCastle == InitCastle /\ [][NextCastle]_vars

(***************************************************************************)
(* Properties                                                              *)
(***************************************************************************)
\* how often chip c occurs in the list s
Occurrences(s, c) == Cardinality({i \in 1..Len(s) : s[i] = c})

\* in how many places chip c is: slots of the decks, hands, holdings and
\* stacks, and the discarded set
PlacesOf(c) ==
    Occurrences(deck[0], c) + Occurrences(deck[1], c)
    + Occurrences(hand[0], c) + Occurrences(hand[1], c)
    + Occurrences(holdings[0], c) + Occurrences(holdings[1], c)
    + Occurrences(stacks[0], c) + Occurrences(stacks[1], c)
    + Occurrences(stacks[2], c) + Occurrences(stacks[3], c)
    + (IF c \in discarded THEN 1 ELSE 0)

\* the sizes of all the places chips can be in
TotalSize ==
    Len(deck[0]) + Len(deck[1]) + Len(hand[0]) + Len(hand[1])
    + Len(holdings[0]) + Len(holdings[1])
    + Len(stacks[0]) + Len(stacks[1]) + Len(stacks[2]) + Len(stacks[3])
    + Cardinality(discarded)

AfterDraft == pc \notin {"draft", "draft_round", "failed_draft"}

\* C1: at every point of a match after the draft each of the 36 chips is in
\* exactly one of the decks, hands, holdings, board stacks or the discarded
\* set, so the sizes of these places sum to 36
C1_Conservation ==
    AfterDraft =>
        /\ \A c \in 1..36 : PlacesOf(c) = 1
        /\ TotalSize = 36

\* C1 witness: a finished match in which chips were discarded, chips lie on
\* the board and both players still hold chips in hand and deck
C1_Witness ==
    /\ pc = "done"
    /\ discarded # {}
    /\ \E i \in Positions : stacks[i] # <<>>
    /\ \A p \in Players : hand[p] # <<>> /\ deck[p] # <<>> /\ Len(holdings[p]) = 3

(***************************************************************************)
(* Properties of the turns of a game, read off the log of each game        *)
(***************************************************************************)
FollowUpAnswers == {"MOVER_FOLLOWUP", "DRAWER_FOLLOWUP"}

\* is the log entry the answer to a get_move?
IsMoveEntry(e) == e[2] \notin FollowUpAnswers

\* the moves of a log, without the follow-ups
MovesOf(L) == SelectSeq(L, IsMoveEntry)

\* has player p checked before entry i of the list L?
CheckedBefore(L, i, p) == \E j \in 1..(i - 1) : L[j] = <<p, "CHECK">>

HasChecked(L, p) == \E j \in 1..Len(L) : L[j] = <<p, "CHECK">>

GameIndexes == 1..Len(games)

C2_OnceChecked ==
    \A k \in GameIndexes : \A p \in Players :
       LET L == games[k].log
       IN  /\ games[k].players_checked[p] <=> HasChecked(L, p)
           /\ \A i \in 1..Len(L) : CheckedBefore(L, i, p) => L[i][1] # p
           /\ Cardinality({i \in 1..Len(L) : L[i] = <<p, "CHECK">>}) <= 1

C2_CheckedStep ==
    \A k \in GameIndexes : \A p \in Players :
       games[k].players_checked[p] =>
          /\ k <= Len(games')
          /\ games'[k].players_checked[p]
          /\ \A i \in (Len(games[k].log) + 1)..Len(games'[k].log) :
                games'[k].log[i][1] # p

\* C2: within one game a checked-flag that is true stays true, the checked
\* player's strategy is never asked for another move or follow-up in that
\* game, and each player executes Check at most once per game
C2_CheckedStays == []C2_OnceChecked /\ [][C2_CheckedStep]_vars

\* C2 witness: in Game 2 Alice checked first, then Bob was asked for a move
\* with a follow-up and for his Check, and the match went on
C2_Witness ==
    /\ Len(games) = 3
    /\ games[2].finished
    /\ LET L == games[2].log
       IN  /\ Len(L) >= 4
           /\ L[1] = <<0, "CHECK">>
           /\ \E i \in 2..Len(L) : L[i][1] = 1 /\ L[i][2] \in FollowUpAnswers
           /\ L[Len(L)] = <<1, "CHECK">>

C3_FinishedIffChecked ==
    \A k \in GameIndexes :
       /\ games[k].finished <=> (games[k].players_checked[0] /\ games[k].players_checked[1])
       /\ k < Len(games) => games[k].finished
       /\ pc \in {"calculate_score", "cleanup_board", "check_match_winner",
                  "update_holdings", "draw_hand", "new_game", "final_winner", "done"}
             => games[k].finished
       /\ pc = "run_game" => ~games[Len(games)].finished

C3_FinishedStep ==
    \A k \in GameIndexes :
       games[k].finished =>
          /\ k <= Len(games')
          /\ games'[k].finished
          /\ games'[k].log = games[k].log
          /\ games'[k].players_checked = games[k].players_checked
          /\ games'[k].active_player_idx = games[k].active_player_idx

\* C3: a game is finished if and only if both checked-flags are true (it is
\* finished as soon as both have checked, the loop of run_game runs only while
\* it is not), and no move is requested or executed in a finished game
C3_Finished == []C3_FinishedIffChecked /\ [][C3_FinishedStep]_vars

\* C3 witness: Game 1 finished after moves of both players and Game 2 is
\* being played, one player has checked in it
C3_Witness ==
    /\ Len(games) = 2
    /\ pc = "run_game"
    /\ games[1].finished
    /\ Len(games[1].log) >= 4
    /\ games[2].players_checked[1]
    /\ ~games[2].players_checked[0]
    /\ Len(games[2].log) >= 2

\* C4: every game starts with player 0 active and both checked-flags false;
\* while nobody has checked the players asked for a move alternate
\* 0, 1, 0, 1, ...; after exactly one player has checked every later move
\* of the game is requested from the other player
C4_Alternation ==
    \A k \in GameIndexes :
       LET L == games[k].log
           M == MovesOf(L)
       IN  /\ L = <<>> =>
                /\ games[k].active_player_idx = 0
                /\ \A p \in Players : ~games[k].players_checked[p]
           /\ \A j \in 1..Len(M) :
                /\ (\A p \in Players : ~CheckedBefore(M, j, p))
                      => M[j][1] = (j - 1) % 2
                /\ \A p \in Players :
                      (CheckedBefore(M, j, p) /\ ~CheckedBefore(M, j, 1 - p))
                         => M[j][1] = 1 - p

\* C4 witness: in Game 2 the players alternated Alice, Bob, then Alice
\* checked and Bob made two more moves
C4_Witness ==
    /\ Len(games) >= 2
    /\ LET M == MovesOf(games[2].log)
       IN  /\ Len(M) = 5
           /\ M[1][1] = 0 /\ M[1][2] # "CHECK"
           /\ M[2][1] = 1 /\ M[2][2] # "CHECK"
           /\ M[3] = <<0, "CHECK">>
           /\ M[4][1] = 1 /\ M[4][2] # "CHECK"
           /\ M[5] = <<1, "CHECK">>

\* C5: a player who has not checked is asked for a move immediately after
\* the single move of the opponent, whatever that move is, and no game is
\* finished before each of the two players was asked for at least one move
C5_NotStarved ==
    \A k \in GameIndexes :
       LET L == games[k].log
           M == MovesOf(L)
       IN  /\ \A j \in 1..Len(M) :
                LET q == 1 - M[j][1]
                IN  ~CheckedBefore(M, j, q) =>
                       /\ j < Len(M) => M[j + 1][1] = q
                       /\ (j = Len(M) /\ ~games[k].finished)
                             => games[k].active_player_idx = q
           /\ games[k].finished =>
                \A p \in Players : \E j \in 1..Len(M) : M[j][1] = p

\* C5 witness: Alice opened Game 1 with her Check, Bob was asked next and
\* played a chip, and is still the active player
C5_Witness ==
    /\ Len(games) = 1
    /\ pc = "run_game"
    /\ LET M == MovesOf(games[1].log)
       IN  /\ Len(M) = 2
           /\ M[1] = <<0, "CHECK">>
           /\ M[2][1] = 1 /\ M[2][2] = "PLAY_FACE_UP"
    /\ games[1].active_player_idx = 1

(***************************************************************************)
(* Properties of scoring and cleanup                                       *)
(***************************************************************************)
\* the pairs of positions that are adjacent on the 4-cycle
Adjacent == {<<0, 1>>, <<0, 2>>, <<1, 3>>, <<2, 3>>,
             <<1, 0>>, <<2, 0>>, <<3, 1>>, <<3, 2>>}

\* does position i show a chip: a non-empty stack with a face-up top
Shows(i) == Len(stacks[i]) > 0 /\ ~is_hidden[stacks[i][Len(stacks[i])]]

\* the value of position i, which shows a chip
ValueAt(i) ==
    LET kind == KindOf(stacks[i][Len(stacks[i])])
    IN  CASE kind = "stacker" -> Len(stacks[i])
          [] kind = "binder" ->
               1 + Cardinality({j \in 0..3 : <<i, j>> \in Adjacent /\ Shows(j)})
          [] OTHER -> 1

\* how many holdings chips of player p are of the kind position i shows
HeldOfKindAt(p, i) ==
    Cardinality({n \in 1..Len(holdings[p]) :
                   KindOf(holdings[p][n]) = KindOf(stacks[i][Len(stacks[i])])})

ContributionAt(p, i) == IF Shows(i) THEN ValueAt(i) * HeldOfKindAt(p, i) ELSE 0

ExpectedScore(p) ==
    ContributionAt(p, 0) + ContributionAt(p, 1) + ContributionAt(p, 2)
    + ContributionAt(p, 3)

\* C6: calculate_score gives each player the sum over the positions that
\* show a chip of value * (number of the player's holdings of that kind),
\* the value being the stack height for a stacker, 1 + the number of
\* adjacent positions that show a chip for a binder and 1 otherwise; the
\* winner is the player with the strictly higher score, none when equal
C6_Score ==
    pc = "cleanup_board" =>
       /\ DOMAIN Game.scores = {"Alice", "Bob"}
       /\ Game.scores["Alice"] = ExpectedScore(0)
       /\ Game.scores["Bob"] = ExpectedScore(1)
       /\ Game.winner = (CASE ExpectedScore(0) > ExpectedScore(1) -> "Alice"
                           [] ExpectedScore(1) > ExpectedScore(0) -> "Bob"
                           [] OTHER -> None)

\* C6 witness: a scored board on which a binder is shown between two shown
\* neighbours and a stacker is shown; Alice wins 5 to 2
C6_Witness ==
    /\ pc = "cleanup_board"
    /\ \E i \in Positions :
          /\ Shows(i) /\ KindOf(Top(stacks[i])) = "binder"
          /\ \A j \in Positions : <<i, j>> \in Adjacent => Shows(j)
          /\ \E j \in Positions : Shows(j) /\ KindOf(Top(stacks[j])) = "stacker"
    /\ Game.scores["Alice"] = 5
    /\ Game.scores["Bob"] = 2
    /\ Game.winner = "Alice"

ScoringStep == pc = "calculate_score" \/ (pc = "cleanup_board" /\ pc' = "cleanup_board")

C7_ScoreStep ==
    /\ ScoringStep => UNCHANGED <<stacks, is_hidden, hand, deck, holdings>>
    /\ (pc = "cleanup_board" /\ pc' = "cleanup_board") =>
          /\ games'[Len(games')].scores = games[Len(games)].scores
          /\ games'[Len(games')].winner = games[Len(games)].winner

\* C7: calculate_score changes no stack, no chip's face state and no hand,
\* deck or holdings, and a second call right after the first gives the same
\* score map and the same winner
C7_ScorePure == [][C7_ScoreStep]_vars

\* C7 witness: a scored game with a winner on a board with a stack of 2
\* whose top is shown and a stack whose top is hidden
C7_Witness ==
    /\ pc = "cleanup_board"
    /\ Game.winner = "Bob"
    /\ Game.scores["Alice"] > 0
    /\ \E i \in Positions : Len(stacks[i]) = 2 /\ Shows(i)
    /\ \E i \in Positions : Len(stacks[i]) = 1 /\ ~Shows(i)

\* the places a chip can be in other than the discarded set
InPlay(c) ==
    \/ \E p \in Players : c \in Range(deck'[p]) \cup Range(hand'[p]) \cup Range(holdings'[p])
    \/ \E i \in Positions : c \in Range(stacks'[i])

C8_CleanupStep ==
    (pc = "cleanup_board" /\ pc' # "cleanup_board") =>
       /\ \A i \in Positions :
            LET s == stacks[i]
                t == stacks'[i]
                n == Len(t)
            IN  /\ n <= Len(s)
                /\ t = SubSeq(s, 1, n)
                /\ \A j \in (n + 1)..Len(s) :
                      ~is_hidden[s[j]] /\ s[j] \in discarded' /\ ~InPlay(s[j])
                /\ n > 0 => is_hidden[s[n]] /\ ~is_hidden'[s[n]]
                /\ \A j \in 1..(n - 1) : is_hidden'[s[j]] = is_hidden[s[j]]
       /\ \A c \in Chips :
            (\A i \in Positions : stacks'[i] = <<>> \/ Top(stacks'[i]) # c)
               => is_hidden'[c] = is_hidden[c]
       /\ discarded \subseteq discarded'
       /\ UNCHANGED <<hand, deck, holdings>>
       /\ (\A i \in Positions : stacks[i] = <<>>)
             => UNCHANGED <<stacks, is_hidden, discarded>>

\* C8: cleanup_board removes from each stack exactly its maximal run of
\* face-up chips from the top, which are discarded and are in no deck, hand,
\* holdings or stack, and sets the remaining top face-up; every other chip
\* keeps its position and face state, no hidden chip is removed, a stack
\* that stays non-empty has a face-up top, an empty board is left unchanged
C8_Cleanup == [][C8_CleanupStep]_vars

\* C8 witness: after cleanup two chips of the board are discarded and a
\* stack has kept one chip, which is face-up
C8_Witness ==
    /\ pc \in {"update_holdings", "draw_hand"}
    /\ Cardinality(discarded \cap BoardChips) >= 2
    /\ \E i \in Positions : Len(stacks[i]) = 1 /\ ~is_hidden[stacks[i][1]]

(***************************************************************************)
(* Properties of the match                                                 *)
(***************************************************************************)
\* the number of games won by the player called name
GameWins(name) == Cardinality({k \in GameIndexes : games[k].winner = name})

GameTies == Cardinality({k \in GameIndexes : games[k].winner = None})

\* what the last match-winner check returned ("Tie" stands for none after
\* Game 3)
CheckResult == IF match_winner = "Tie" THEN None ELSE match_winner

\* C9: for every list of 2 or 3 game results the match-winner check returns
\* a player with at least 2 wins if there is one, otherwise a player with
\* exactly 1 win when a game was tied; for [tied, Alice, Bob] it is Alice
C9_MatchWinner ==
    pc \in {"done", "update_holdings", "draw_hand"} =>
       /\ \A n \in {"Alice", "Bob"} : GameWins(n) >= 2 => CheckResult = n
       /\ ((\A n \in {"Alice", "Bob"} : GameWins(n) < 2)
             /\ GameTies >= 1
             /\ \E n \in {"Alice", "Bob"} : GameWins(n) = 1)
            => CheckResult \in {"Alice", "Bob"} /\ GameWins(CheckResult) = 1
       /\ (Len(games) = 3 /\ games[1].winner = None /\ games[2].winner = "Alice"
             /\ games[3].winner = "Bob")
            => CheckResult = "Alice"

\* C9 witness: the check has run on [tied, Alice, Bob] and returned Alice
C9_Witness ==
    /\ pc = "done"
    /\ Len(games) = 3
    /\ games[1].winner = None /\ games[2].winner = "Alice" /\ games[3].winner = "Bob"
    /\ match_winner = "Alice"

StageRank(s) ==
    CASE s = "DRAFT" -> 0
      [] s = "GAME1" -> 1
      [] s = "GAME2" -> 2
      [] s = "GAME3" -> 3

C10_Games ==
    /\ Len(games) <= 3
    /\ pc = "done" => Len(games) \in {2, 3}
    /\ Len(games) >= 1 => StageRank(stage) = Len(games)
    /\ Len(games) = 3 => CheckMatchWinnerOf(SubSeq(games, 1, 2)) = None
    /\ (Len(games) = 3 /\ pc # "done") => match_winner = None
    /\ (Len(games) = 2 /\ pc = "done") =>
          /\ match_winner \in {"Alice", "Bob"}
          /\ match_winner = CheckMatchWinnerOf(games)
    /\ match_winner # None => pc = "done"

C10_Step ==
    /\ StageRank(stage') \in {StageRank(stage), StageRank(stage) + 1}
    /\ match_winner # None => UNCHANGED <<games, holdings, hand, deck>>

\* C10: a match run plays 2 or 3 games, its stage only advances DRAFT ->
\* GAME1 -> GAME2 -> (GAME3); Game 3 is played if and only if the check
\* after Game 2 returns no winner, and once the match is decided no game is
\* created, no holdings are revised and no chips are drawn
C10_Match == []C10_Games /\ [][C10_Step]_vars

\* C10 witness: the match was decided after Game 2, for Bob by one win and
\* the tie of Game 1
C10_Witness ==
    /\ pc = "done"
    /\ Len(games) = 2
    /\ stage = "GAME2"
    /\ games[1].winner = None
    /\ match_winner = "Bob"

\* the step of run_match that goes on from a finished game to the next one
LeavesGame ==
    /\ pc \in {"cleanup_board", "check_match_winner"}
    /\ pc' \in {"update_holdings", "draw_hand"}

C11_RevisionStep ==
    LeavesGame => (pc' = "update_holdings" <=> games[Len(games)].winner = None)

\* C11: holdings revision is offered between game k and game k+1 if and only
\* if game k, which has just finished, ended with no winner, between Game 1
\* and Game 2 as between Game 2 and Game 3
C11_Revision ==
    /\ [](pc = "update_holdings" => games[Len(games)].winner = None)
    /\ [][C11_RevisionStep]_vars

\* C11 witness: Game 3 is about to start without a revision, Game 1 and
\* Game 2 each had a winner
C11_Witness ==
    /\ Len(games) = 2
    /\ pc = "new_game"
    /\ games[1].winner # None
    /\ games[2].winner # None
    /\ holdings # [p \in Players |-> <<>>]

(***************************************************************************)
(* Properties of the draft                                                 *)
(***************************************************************************)
\* the chips of a list that are of the kind
OfKind(s, kind) == {i \in 1..Len(s) : KindOf(s[i]) = kind}

\* C12: after the 6 rounds of a draft with strategies that split every batch
\* into 3 and 3 chips of the batch each deck holds exactly 18 chips, the
\* decks share no chip and together hold the 36 chips, 9 of each kind
C12_DraftDecks ==
    pc = "initial_draw" =>
       /\ Len(deck[0]) = 18 /\ Len(deck[1]) = 18
       /\ Cardinality(Range(deck[0])) = 18 /\ Cardinality(Range(deck[1])) = 18
       /\ Range(deck[0]) \cap Range(deck[1]) = {}
       /\ Range(deck[0]) \cup Range(deck[1]) = 1..36
       /\ \A kind \in {"mover", "stacker", "drawer", "binder"} :
             Cardinality(OfKind(deck[0], kind)) + Cardinality(OfKind(deck[1], kind)) = 9
       /\ all_chips = <<>>

\* C12 witness: the draft is over and the decks differ in what they hold of
\* a kind
C12_Witness ==
    /\ pc = "initial_draw"
    /\ stage = "GAME1"
    /\ Len(deck[0]) = 18
    /\ Cardinality(OfKind(deck[0], "mover")) # Cardinality(OfKind(deck[1], "mover"))

\* a round of the draft that the assertions of draft_3_from_6 let pass
RoundAccepted == pc = "draft_round" /\ draft_round' = draft_round + 1

C13_KeptStep ==
    RoundAccepted =>
       LET round == draft_round + 1
           chooser == IF round \in {1, 3, 5} THEN 0 ELSE 1
           answer == DraftChoose3(SubSeq(all_chips, 1, 6))
           kept == answer[1]
           given == answer[2]
       IN  /\ deck'[chooser] = deck[chooser] \o kept
           /\ deck'[1 - chooser] = deck[1 - chooser] \o given

\* C13: in every draft round the 3 chips the chooser's strategy returns as
\* kept are added to the chooser's own deck and the 3 chips it returns as
\* given to the other player's deck; the chooser is player 0 in rounds
\* 1, 3, 5 and player 1 in rounds 2, 4, 6
C13_KeptToChooser == [][C13_KeptStep]_vars

\* the chips a step adds to the deck of player p
AddedTo(p) == SubSeq(deck'[p], Len(deck[p]) + 1, Len(deck'[p]))

C14_DraftStep ==
    pc = "draft_round" =>
       /\ pc' = "failed_draft" => deck' = deck
       /\ RoundAccepted =>
             /\ Len(AddedTo(0)) = 3 /\ Len(AddedTo(1)) = 3
             /\ Range(AddedTo(0)) \cup Range(AddedTo(1)) = Range(SubSeq(all_chips, 1, 6))

\* C14: the draft fails, adding nothing to either deck in that round,
\* whenever the chooser's strategy returns a split whose kept or given part
\* is not of exactly 3 chips or that holds a chip that is not one of the 6
\* chips of the batch or a chip of the batch twice; so a round that does
\* not fail adds to the decks the 6 chips of the batch, 3 and 3
C14_BadSplitFails == [][C14_DraftStep]_vars

(***************************************************************************)
(* Properties of the holdings                                              *)
(***************************************************************************)
HoldingsDrawn ==
    pc \notin {"draft", "draft_round", "initial_draw", "failed_draft", "failed_draw"}

C18_HoldingsStep ==
    pc \in {"run_game", "calculate_score", "cleanup_board"} => holdings' = holdings

\* C18: from the initial holdings draw onward each player's holdings hold
\* exactly 3 chips, also after a holdings revision, and no step of the turn
\* loop, of the scoring or of the cleanup changes the holdings
C18_Holdings ==
    /\ [](HoldingsDrawn => \A p \in Players : Len(holdings[p]) = 3)
    /\ [][C18_HoldingsStep]_vars

\* C18 witness: Game 2 is being played after the tie of Game 1, so after
\* the players considered a revision of their holdings, and a chip was played
C18_Witness ==
    /\ Len(games) = 2
    /\ pc = "run_game"
    /\ Len(games[2].log) >= 2
    /\ games[1].winner = None
    /\ \E i \in Positions : stacks[i] # <<>>
    /\ \A p \in Players : Len(holdings[p]) = 3

(***************************************************************************)
(* Properties of the moves                                                 *)
(***************************************************************************)
\* a step of the turn loop in which a strategy was asked for a move
TurnStep ==
    /\ pc = "run_game"
    /\ Len(games') = Len(games)
    /\ Len(games'[Len(games)].log) > Len(games[Len(games)].log)

\* what was asked in that step: the player, the move, the answers to the
\* follow-ups
Asked == games'[Len(games)].asked

\* the step ended in a failed assertion or index
Rejected == pc' = "failed_move"

\* a follow-up was requested in the step
FollowUpRequested ==
    Len(games'[Len(games)].log) = Len(games[Len(games)].log) + 2

\* the move of the step plays a chip of the kind from the hand of the
\* acting player, face-up, on one of the positions 0..3
PlaysFaceUp(kind) ==
    /\ TurnStep
    /\ Asked.move.move_type = "PLAY_FACE_UP"
    /\ Asked.move.chip \in Range(hand[Asked.player])
    /\ KindOf(Asked.move.chip) = kind
    /\ Asked.move.target_pos \in 0..3

\* the board with chip c put on the stack at position i
PutOn(board, i, c) == [board EXCEPT ![i] = Append(@, c)]

\* the board after the chip of the move was put on its target
Placed == PutOn(stacks, Asked.move.target_pos, Asked.move.chip)

\* is (src, dst) a legal mover follow-up on the board?
LegalMoverFollowup(board, src, dst) ==
    /\ src \in 0..3
    /\ dst \in 0..3
    /\ board[src] # <<>>
    /\ <<src, dst>> \in Adjacent

C15_MoverStep ==
    (PlaysFaceUp("mover") /\ ~LegalMoverFollowup(Placed, Asked.mf[1], Asked.mf[2])) =>
       /\ Rejected
       /\ stacks' = Placed

\* C15: after a mover chip is played face-up a follow-up whose source stack
\* is empty, whose source or destination is outside 0..3 or whose
\* destination is not adjacent to the source is rejected as a fatal illegal
\* move, and no chip is moved between stacks
C15_MoverRejected == [][C15_MoverStep]_vars

\* C15 witness: the run failed on the follow-up (0, 3) of a mover played
\* on position 1, the stack at 0 is not empty
C15_Witness ==
    /\ pc = "failed_move"
    /\ Game.asked.move.move_type = "PLAY_FACE_UP"
    /\ Game.asked.move.chip = 3
    /\ Game.asked.move.target_pos = 1
    /\ Game.asked.mf = <<0, 3>>
    /\ stacks[0] # <<>>
    /\ Top(stacks[1]) = 3

C20_MoverStep ==
    (PlaysFaceUp("mover") /\ LegalMoverFollowup(Placed, Asked.mf[1], Asked.mf[2])) =>
       LET src == Asked.mf[1]
           dst == Asked.mf[2]
           p == Asked.player
           chip == Asked.move.chip
           moved == Placed[src][Len(Placed[src])]
       IN  /\ ~Rejected
           /\ stacks'[src] = SubSeq(Placed[src], 1, Len(Placed[src]) - 1)
           /\ stacks'[dst] = Append(Placed[dst], moved)
           /\ \A i \in Positions \ {src, dst} : stacks'[i] = Placed[i]
           /\ \A c \in Chips \ {chip} : is_hidden'[c] = is_hidden[c]
           /\ ~is_hidden'[chip]
           /\ Len(hand'[p]) = Len(hand[p]) - 1
           /\ chip \notin Range(hand'[p])
           /\ hand'[1 - p] = hand[1 - p]
           /\ UNCHANGED <<deck, holdings, discarded>>

\* C20: a legal mover follow-up (source, destination) moves exactly one
\* chip, the top chip of the source stack, which may be the mover just
\* played, onto the top of the destination stack with its face state
\* unchanged; the other stacks, the order and face state of the other chips,
\* the hands, the decks and the holdings are unchanged
C20_MoverMoves == [][C20_MoverStep]_vars

\* C20 witness: a mover was played on position 0 and the follow-up (1, 3)
\* moved a hidden chip, which is now on top of the stack at 3, still hidden
C20_Witness ==
    /\ pc = "run_game"
    /\ Game.asked.move.move_type = "PLAY_FACE_UP"
    /\ Game.asked.move.chip = 3
    /\ Game.asked.move.target_pos = 0
    /\ Game.asked.mf = <<1, 3>>
    /\ stacks[1] = <<>>
    /\ stacks[3] # <<>>
    /\ is_hidden[Top(stacks[3])]
    /\ stacks[0] = <<3>>

\* the move of the step names a chip that is not in the hand of the acting
\* player
AbsentChipMove ==
    /\ TurnStep
    /\ Asked.move.move_type \in {"DISCARD", "PLAY_FACE_DOWN", "PLAY_FACE_UP"}
    /\ Asked.move.chip \notin Range(hand[Asked.player])

C17_AbsentStep ==
    AbsentChipMove =>
       /\ Rejected
       /\ UNCHANGED <<hand, deck, stacks, is_hidden, holdings, discarded>>
       /\ games'[Len(games)].players_checked = games[Len(games)].players_checked
       /\ ~FollowUpRequested

\* C17: a Discard, PlayFaceDown or PlayFaceUp move whose chip is not in the
\* acting player's hand (a chip of the other hand, of the board, of a deck
\* or no chip) fails before anything changes: hands, decks, stacks, face
\* states and checked-flags are as before the move
C17_AbsentChip == [][C17_AbsentStep]_vars

\* C17 witness: the run failed on Bob's play of a chip of Alice's hand,
\* after Alice's Check
C17_Witness ==
    /\ pc = "failed_move"
    /\ Game.asked.player = 1
    /\ Game.asked.move.move_type = "PLAY_FACE_DOWN"
    /\ Game.asked.move.chip = 3
    /\ Game.asked.move.target_pos = 2
    /\ hand[0] = <<3, 21, 12>>
    /\ Game.players_checked[0]
    /\ ~Game.players_checked[1]

\* the number of chips on the board
OnBoard(board) == Len(board[0]) + Len(board[1]) + Len(board[2]) + Len(board[3])

\* the list s without its element at place i
Without(s, i) == SubSeq(s, 1, i - 1) \o SubSeq(s, i + 1, Len(s))

C19_DrawerStep ==
    PlaysFaceUp("drawer") =>
       LET p == Asked.player
           chip == Asked.move.chip
           rest == Without(hand[p], CHOOSE i \in 1..Len(hand[p]) : hand[p][i] = chip)
       IN  /\ deck[p] = <<>> =>
                /\ ~Rejected
                /\ ~FollowUpRequested
                /\ stacks' = Placed
                /\ hand'[p] = rest
                /\ deck' = deck
                /\ \A c \in Chips \ {chip} : is_hidden'[c] = is_hidden[c]
           /\ deck[p] # <<>> => FollowUpRequested
           /\ (/\ deck[p] # <<>>
               /\ Asked.df[1] \in Range(rest) \cup {deck[p][1]}
               /\ Asked.df[2] \in 0..3) =>
                /\ ~Rejected
                /\ deck'[p] = SubSeq(deck[p], 2, Len(deck[p]))
                /\ Range(hand'[p]) = (Range(rest) \cup {deck[p][1]}) \ {Asked.df[1]}
                /\ Len(hand'[p]) = Len(hand[p]) - 1
                /\ stacks' = PutOn(Placed, Asked.df[2], Asked.df[1])
                /\ OnBoard(stacks') = OnBoard(stacks) + 2
                /\ is_hidden'[Asked.df[1]]
                /\ ~is_hidden'[chip]
                /\ \A c \in Chips \ {chip, Asked.df[1]} : is_hidden'[c] = is_hidden[c]
           /\ hand'[1 - p] = hand[1 - p]
           /\ deck'[1 - p] = deck[1 - p]

\* C19: a drawer played face-up when the acting player's deck is empty
\* places only the drawer, nothing is drawn and no follow-up is requested;
\* when the deck is not empty the first chip of the deck is drawn into the
\* hand and one chip of the hand is played face-down on the follow-up
\* position: the deck is 1 smaller, the hand 1 smaller than before the
\* move, the board holds 2 more chips, the follow-up chip is hidden and on
\* top of its stack
C19_Drawer == [][C19_DrawerStep]_vars

\* C19 witness: Alice played her drawer on position 2 and then the chip she
\* drew, the first of her deck, face-down on position 1
C19_Witness ==
    /\ pc = "run_game"
    /\ Game.asked.player = 0
    /\ Game.asked.move = Move("PLAY_FACE_UP", 21, 2)
    /\ Game.asked.df = <<5, 1>>
    /\ Top(stacks[1]) = 5
    /\ is_hidden[5]
    /\ Top(stacks[2]) = 21
    /\ deck[0] = <<6>>
    /\ hand[0] = <<3, 12>>

C16_TargetStep ==
    /\ (/\ TurnStep
        /\ Asked.move.move_type \in {"PLAY_FACE_DOWN", "PLAY_FACE_UP"}
        /\ Asked.move.chip \in Range(hand[Asked.player])
        /\ Asked.move.target_pos \notin 0..3) =>
          /\ Rejected
          /\ stacks' = stacks
    /\ (/\ PlaysFaceUp("drawer")
        /\ FollowUpRequested
        /\ Asked.df[2] \notin 0..3) =>
          /\ Rejected
          /\ stacks' = Placed

\* C16: a PlayFaceDown or PlayFaceUp move, or a drawer follow-up, whose
\* target position is outside 0..3 (the default -1 of Move and -2, -3, -4
\* included) is a fatal illegal move and puts no chip on any stack
C16_TargetRejected == [][C16_TargetStep]_vars

\* the list s without the chip c
AllBut(s, c) ==
    LET Keep(x) == x # c
    IN  SelectSeq(s, Keep)

\* is list s the beginning of list t?
IsPrefix(s, t) == Len(s) <= Len(t) /\ SubSeq(t, 1, Len(s)) = s

\* the move of the step plays a chip from the hand of the acting player on
\* one of the positions 0..3
PlaysChip ==
    /\ TurnStep
    /\ Asked.move.move_type \in {"PLAY_FACE_DOWN", "PLAY_FACE_UP"}
    /\ Asked.move.chip \in Range(hand[Asked.player])
    /\ Asked.move.target_pos \in 0..3

C21_PlayStep ==
    PlaysChip =>
       LET p == Asked.player
           c == Asked.move.chip
           t == Asked.move.target_pos
           down == Asked.move.move_type = "PLAY_FACE_DOWN"
       IN  /\ games'[Len(games)].players_checked = Game.players_checked
           /\ hand'[1 - p] = hand[1 - p]
           /\ deck'[1 - p] = deck[1 - p]
           /\ c \notin Range(hand'[p])
           /\ is_hidden'[c] = down
           /\ IsPrefix(stacks[t], stacks'[t])
           /\ down => ~FollowUpRequested
           /\ ~FollowUpRequested =>
                /\ ~Rejected
                /\ hand'[p] = AllBut(hand[p], c)
                /\ stacks' = Placed
                /\ Top(stacks'[t]) = c
                /\ deck' = deck
                /\ \A x \in Chips \ {c} : is_hidden'[x] = is_hidden[x]
           /\ (FollowUpRequested /\ KindOf(c) = "drawer") =>
                /\ stacks'[t][Len(stacks[t]) + 1] = c
                /\ \A i \in Positions \ {t} : IsPrefix(stacks[i], stacks'[i])
           /\ (FollowUpRequested /\ KindOf(c) = "mover") =>
                /\ hand'[p] = AllBut(hand[p], c)
                /\ deck' = deck
                /\ \/ stacks' = Placed
                   \/ \E src \in Positions : \E k \in 1..2 :
                        /\ Placed[src] # <<>>
                        /\ stacks' = PutOn([Placed EXCEPT ![src] = Pop(@)],
                                           Neighbors(src)[k], Top(Placed[src]))

\* C21: a PlayFaceDown or PlayFaceUp of chip c from the acting player's
\* hand at position t in 0..3 removes exactly c from that hand and makes c
\* the top chip of stack t, hidden for PlayFaceDown and face-up for
\* PlayFaceUp; the other three stacks, the chips already in stack t, the
\* opponent's hand, both decks and both checked-flags are unchanged by the
\* placement (a chained mover or drawer effect then works on that board)
C21_Play == [][C21_PlayStep]_vars

\* C21 witness: Bob played his drawer face-down on position 1, on top of
\* the chip that lay there; the chip is hidden and nothing was drawn
C21_Witness ==
    /\ pc = "run_game"
    /\ games[3].log = <<<<0, "CHECK">>, <<1, "PLAY_FACE_DOWN">>>>
    /\ Game.asked.move = Move("PLAY_FACE_DOWN", 22, 1)
    /\ stacks[1] = <<28, 22>>
    /\ is_hidden[22]
    /\ hand[1] = <<4>>
    /\ Len(deck[1]) = MaxDeckLeft

(***************************************************************************)
(* Properties of a game played by legal strategies                         *)
(***************************************************************************)
\* the number of moves requested so far in the running game
MovesRequested == Len(MovesOf(Game.log))

\* the moves requested in a game are at most the chips of the two hands at
\* its start, and 2
C22_Bound ==
    MovesRequested <= Game.hand_sizes[0] + Game.hand_sizes[1] + 2

C22_HandStep ==
    TurnStep =>
       LET p == Asked.player
       IN  /\ ~Rejected
           /\ hand[p] = <<>> => Asked.move.move_type = "CHECK"
           /\ Asked.move.move_type # "CHECK" =>
                /\ Len(hand'[p]) = Len(hand[p]) - 1
                /\ hand'[1 - p] = hand[1 - p]
           /\ Asked.move.move_type = "CHECK" => hand' = hand

\* C22: every game terminates under any strategy that only returns legal
\* moves: each executed Discard, PlayFaceDown or PlayFaceUp, with its
\* chained effect, leaves the acting player's hand exactly 1 chip smaller,
\* a player with an empty hand only checks, the number of moves requested
\* in a game is at most (size of hand 0) + (size of hand 1) + 2 counted at
\* the start of the game, and the game eventually is finished
C22_Terminates ==
    /\ []C22_Bound
    /\ [][C22_HandStep]_vars
    /\ <>(Game.finished)

\* C22 witness: a game that started with 1 chip in each hand is finished
\* after 4 moves, one of them a drawer whose effect drew the deck's chip
C22_Witness ==
    /\ Game.finished
    /\ Game.hand_sizes = [p \in Players |-> 1]
    /\ MovesRequested = 4
    /\ hand = [p \in Players |-> <<>>]
    /\ \E i \in 1..Len(Game.log) : Game.log[i][2] = "DRAWER_FOLLOWUP"
    /\ deck[0] = <<>>
    /\ deck[1] # <<>>

(***************************************************************************)
(* Properties of the turn loop                                             *)
(***************************************************************************)
\* run_game is about to call play_turn
AtPlayTurn == pc = "run_game" /\ games # <<>>

C23_NotChecked ==
    AtPlayTurn =>
       /\ ~Game.finished
       /\ ~Game.players_checked[Game.active_player_idx]

C23_AskedStep == (AtPlayTurn /\ vars' # vars) => TurnStep

\* C23: at the start of every play_turn call in any game the active
\* player's checked-flag is false, so the branch of play_turn that skips a
\* player who has already checked is never taken: every call of play_turn
\* asks the active player for a move
C23_NeverSkipped == []C23_NotChecked /\ [][C23_AskedStep]_vars

\* C23 witness: in Game 2 Alice has checked, Bob then played a chip and is
\* the active player again
C23_Witness ==
    /\ pc = "run_game"
    /\ Len(games) = 2
    /\ Game.players_checked[0]
    /\ ~Game.players_checked[1]
    /\ Game.active_player_idx = 1
    /\ Len(Game.log) >= 2
    /\ Game.log[1] = <<0, "CHECK">>
    /\ Game.log[2][1] = 1
    /\ Game.log[2][2] # "CHECK"

(***************************************************************************)
(* Properties of the match outcome                                         *)
(***************************************************************************)
\* the other player's name; no winner stays no winner, a Tie stays a Tie
ExchangedName(n) ==
    IF n = PlayerName(0) THEN PlayerName(1)
    ELSE IF n = PlayerName(1) THEN PlayerName(0)
    ELSE n

\* the list of games with player 0 and player 1 exchanged in every result
Exchanged(gs) ==
    [i \in 1..Len(gs) |->
       [gs[i] EXCEPT !.winner = ExchangedName(@),
                     !.scores = [n \in DOMAIN @ |-> @[ExchangedName(n)]]]]

\* can a match run produce the list of games as its complete list?  Game 3
\* is played when the check after Game 2 returned no winner
Producible(gs) ==
    \/ Len(gs) = 2 /\ CheckMatchWinnerOf(gs) # None
    \/ Len(gs) = 3 /\ CheckMatchWinnerOf(SubSeq(gs, 1, 2)) = None

\* the outcome of the match run that produced the list of games
OutcomeOf(gs) ==
    IF CheckMatchWinnerOf(gs) = None THEN "Tie" ELSE CheckMatchWinnerOf(gs)

\* C24: the match outcome does not depend on which player is index 0: for
\* every list of game results a match run produces, the list with player 0
\* and player 1 exchanged as the winner of every game yields the exchanged
\* match winner, and a match Tie stays a Tie
C24_Symmetric ==
    (pc = "done" /\ Producible(games)) =>
       /\ Producible(Exchanged(games))
       /\ OutcomeOf(Exchanged(games)) = ExchangedName(match_winner)

\* were all the games of the list tied?
AllTied(gs) == \A i \in 1..Len(gs) : gs[i].winner = None

\* C25: a match run ends with the outcome "Tie" if and only if three games
\* were played and all three were tied; the final comparison of total wins
\* in the match-winner check never decides a match: whenever it is reached
\* after 3 games both players have 0 wins
C25_Tie ==
    /\ (pc = "done" /\ Producible(games)) =>
          (match_winner = "Tie" <=> (Len(games) = 3 /\ AllTied(games)))
    /\ (pc \in {"final_winner", "done"} /\ Producible(games) /\ ComparesWins(games)) =>
          /\ GameWins("Alice") = 0
          /\ GameWins("Bob") = 0
          /\ pc = "done" => match_winner = "Tie"

\* C25 witness: three tied games were played and the match ended in a Tie
C25_Witness ==
    /\ pc = "done"
    /\ Len(games) = 3
    /\ AllTied(games)
    /\ ComparesWins(games)
    /\ match_winner = "Tie"

(***************************************************************************)
(* Properties of the draws                                                 *)
(***************************************************************************)
C26_DrawStep ==
    /\ (TurnStep /\ FollowUpRequested /\ KindOf(Asked.move.chip) = "drawer") =>
          /\ DrawAllowed(deck[Asked.player], 1)
          /\ Len(deck'[Asked.player]) = Len(deck[Asked.player]) - 1
    /\ (TurnStep /\ ~(FollowUpRequested /\ KindOf(Asked.move.chip) = "drawer")) =>
          deck' = deck
    /\ pc = "draw_hand" =>
          /\ pc' = "new_game"
          /\ \A p \in Players :
                /\ Len(deck[p]) >= 3 => Len(deck'[p]) = Len(deck[p]) - 3
                /\ Len(deck[p]) < 3 => deck'[p] = <<>>
                /\ hand'[p] = hand[p] \o SubSeq(deck[p], 1, Len(deck[p]) - Len(deck'[p]))
    /\ pc = "update_holdings" =>
          /\ pc' = "draw_hand"
          /\ \A p \in Players : Len(holdings'[p]) = 3 /\ Len(deck'[p]) = Len(deck[p])
    /\ pc = "initial_draw" =>
          /\ pc' = "new_game"
          /\ \A p \in Players :
                Len(holdings'[p]) = 3 /\ Len(hand'[p]) = 7 /\ Len(deck'[p]) = 8

\* C26: in every match run every call of Deck.draw(count) is made with
\* count no larger than the number of chips in the deck, so its assertion
\* never fails: the initial draw of 3 holdings and 7 hand chips, the
\* up-to-3 draws before Game 2 and Game 3, every drawer chained effect and
\* the 3-chip redraw of a holdings revision
C26_DrawsAllowed == [](pc # "failed_draw") /\ [][C26_DrawStep]_vars

\* C26 witness: Game 3 is about to start after Alice, whose deck held 2
\* chips, drew both of them, and Bob, whose deck was empty, drew none
C26_Witness ==
    /\ pc = "new_game"
    /\ Len(games) = 2
    /\ hand[0] = GameHands[0] \o SubSeq(DecksLeft[0], 1, 2)
    /\ hand[1] = GameHands[1]
    /\ deck = [p \in Players |-> <<>>]

\* the follow-ups (source, destination) that pass the checks of
\* execute_move on the board
LegalMoverFollowups(board) ==
    {sd \in Positions \X Positions : LegalMoverFollowup(board, sd[1], sd[2])}

C27_MoverStep ==
    (TurnStep /\ FollowUpRequested /\ KindOf(Asked.move.chip) = "mover") =>
       /\ Placed[Asked.move.target_pos] # <<>>
       /\ \A i \in Positions : Len(Neighbors(i)) = 2
       /\ LegalMoverFollowups(Placed) # {}
       /\ Asked.mf # <<-1, -1>>
       /\ Asked.mf \in LegalMoverFollowups(Placed)
       /\ ~Rejected

\* C27: whenever the engine requests a mover follow-up at least one
\* (source, destination) pair that passes the engine's checks exists,
\* because the stack that just received the mover is not empty and every
\* position has adjacent positions; the random strategy's answer (-1, -1)
\* is never returned and the mover play of a legal strategy never ends in a
\* fatal error
C27_MoverAnswer == [][C27_MoverStep]_vars

\* C27 witness: Bob played his mover on position 3 of the empty board and
\* moved it on to position 1, the only legal source being the mover's stack
C27_Witness ==
    /\ pc = "run_game"
    /\ Game.asked.player = 1
    /\ Game.asked.move = Move("PLAY_FACE_UP", 4, 3)
    /\ Game.asked.mf = <<3, 1>>
    /\ stacks = [i \in Positions |-> IF i = 1 THEN <<4>> ELSE <<>>]

(***************************************************************************)
(* Properties of the castle                                                *)
(***************************************************************************)
\* are the cells a and b neighbours?
AreNeighbours(a, b) == b \in Range(neighbours(a))

\* the pairs of neighbouring cells whose top tiles are both of the kind
SamePairs(kind) ==
    {pair \in {{a, b} : a, b \in {c \in Range(CastleCells) : CellTop(cells[c]) = kind}} :
       /\ Cardinality(pair) = 2
       /\ \A a \in pair : \A b \in pair \ {a} : AreNeighbours(a, b)}

\* the neighbour relation is symmetric and irreflexive, and no list of
\* neighbours names a cell twice
NeighboursSymmetric ==
    \A a \in Range(CastleCells) :
       /\ ~AreNeighbours(a, a)
       /\ Cardinality(Range(neighbours(a))) = Len(neighbours(a))
       /\ \A b \in Range(CastleCells) : AreNeighbours(a, b) <=> AreNeighbours(b, a)

\* C28: in the castle game, for every content of the 7 castle cells,
\* count_tile_contacts counts each pair of neighbouring cells with
\* same-kind top tiles exactly twice, so its assertion that every per-kind
\* count is even never fails, and the value returned for a kind is the
\* number of such pairs; the neighbour relation built in Castle.__init__ is
\* symmetric and irreflexive
C28_Contacts ==
    /\ pc # "failed_contacts"
    /\ NeighboursSymmetric
    /\ LET counted == Contacts
       IN  \A kind \in Range(TILE_KINDS) :
              Get(counted, kind) = 2 * Cardinality(SamePairs(kind))
    /\ pc = "counted" =>
          /\ \A kind \in DOMAIN result : result[kind] = Cardinality(SamePairs(kind))
          /\ \A kind \in Range(TILE_KINDS) \ DOMAIN result : SamePairs(kind) = {}

\* C28 witness: a castle with one pair of troops and three pairs of agents
\* in contact was counted, the centre cell holds two tiles
C28_Witness ==
    /\ pc = "counted"
    /\ DOMAIN result = {"troop", "agent"}
    /\ result["troop"] = 1
    /\ result["agent"] = 3
    /\ Len(cells[<<1, 1>>]) = 2
    /\ CellTop(cells[<<1, 1>>]) = "agent"

====
